---------------------------- MODULE Spec2Model ----------------------------
(***************************************************************************)
(* A model of libremidi's output backends:                                 *)
(*   - the JACK output (helpers.hpp, midi_out.hpp): the shared port slot,  *)
(*     the client-release handshake, the ring queue between the user       *)
(*     thread and the realtime process callback;                           *)
(*   - the PipeWire context (pipewire/context.hpp): the registry listener  *)
(*     and the four-map port graph.                                        *)
(* Each backend has its own specification over the shared variables.       *)
(***************************************************************************)
EXTENDS Integers, Sequences, FiniteSets, TLC

(***************************************************************************)
(* Bounds of the model.                                                    *)
(***************************************************************************)
\* send_message calls made by the user thread in one behaviour
MaxSends == 2
\* ports the host hands out (jack_port_register successes) in one behaviour
MaxPorts == 2
\* registry and port-info events delivered to the PipeWire context in one
\* behaviour
MaxEvents == 5
\* global ids the PipeWire daemon hands out
MaxIds == 2
\* configuration.client_name.size() and the host's jack_port_name_size(),
\* scaled down together
ClientNameLen == 3
PortNameSize == 8

\* the host clock readings a behaviour goes through: 0..MaxHostTime
MaxHostTime == 2

\* synchronize() calls in a behaviour
MaxSyncs == 2

\* registry and port events the daemon sends while barriers are modelled
MaxSent == 3

\* core done events waiting in the loop at a time
MaxInbox == 2

\* returns of main_loop_run that are not the barrier's
MaxLoopRuns == 2

\* operations on the filter in a behaviour
MaxFilterOps == 3

(***************************************************************************)
(* Values.                                                                 *)
(***************************************************************************)
\* the null jack_port_t* / jack_client_t*
NULL == 0

\* the SysEx status byte 0xF0
SysExStart == 240

\* n copies of the byte b
Fill(n, b) == [i \in 1..n |-> b]

\* a SysEx message of 40 bytes
Msg40 == <<SysExStart>> \o Fill(39, 2)

\* the messages send_message is called with: the empty message, a note-on,
\* and SysEx messages of 40 and 60 bytes
Msgs ==
  { <<>>,
    <<144, 60, 127>>,
    Msg40,
    <<SysExStart>> \o Fill(59, 3) }

\* configuration.ringbuffer_size values (jack_ringbuffer_create rounds up to
\* a power of two)
RingbufferSizes == {60, 64}

\* portName.size() values passed to open_port / open_virtual_port: the empty
\* name, a name that fits, and the shortest name that does not
PortNameLens == {0, 2, PortNameSize - ClientNameLen - 2}

\* the state of the object's queue member when there is none (direct variant)
NoQueue == [size |-> 0, buf |-> <<>>, wp |-> 0, rp |-> 0]

Min(a, b) == IF a < b THEN a ELSE b

VARIABLES
  \* ---- JACK output object (jack_helpers, midi_out_jack_*) ----
  direct,       \* configuration.direct: midi_out_jack_direct, else queued
  context,      \* configuration.context supplied (externally owned client)
  client,       \* jack_helpers::client (NULL or the client)
  port,         \* jack_helpers::port: the shared atomic slot
  hostPort,     \* the host's view of each port handle
  clientReady,  \* semaphore_pair_lock: "client-ready" semaphore
  releaseAck,   \* semaphore_pair_lock: "release-ack" semaphore
  rb,           \* jack_queue::ringbuffer (jack_ringbuffer_t)
  rbSpace,      \* jack_queue::ringbuffer_space
  \* ---- the user thread ----
  uPc,          \* where the user thread is inside an operation
  uPortPtr,     \* do_close_port's local port_ptr
  uMsg,         \* the message of the latest send_message call
  uRet,         \* the last operation that returned and its error code
  \* ---- the realtime thread (process callback) ----
  cbPc,         \* where the callback is inside its cycle
  cbPort,       \* the port the callback loaded from the slot
  procPort,     \* the port process() read from the slot for get_buffer
  outBuf,       \* the cycle's MIDI buffer: the events reserved in it
  \* ---- history ----
  written,      \* payloads of the writes that returned success, in order
  consumed,     \* frames taken off the queue (copied or discarded)
  cycleBase,    \* consumed when the latest process() began
  cycleQuiet,   \* inside a cycle: the user thread was idle when process()
                \* began, has not moved and no reservation has failed since
  nSends        \* send_message calls so far

VARIABLES
  \* ---- the object's lifetime and the host ----
  hostRuns,     \* the host (or the owner of the external context) is
                \* invoking the process callback cycle after cycle
  hostClient,   \* the host's client: "none", "open" or "closed"
  ctxFuncs,     \* the instance tokens whose process function the external
                \* context holds
  inDtor        \* the destructor is running

lifeVars == << hostRuns, hostClient, ctxFuncs, inDtor >>

VARIABLES
  \* ---- inside jack_ringbuffer_write, and a second sending thread ----
  uDone,        \* bytes of the current jack_ringbuffer_write call that are
                \* copied and published, when the call wraps around
  u2Pc,         \* where the second sending thread is inside send_message
  u2Msg,        \* the message of its latest send_message call
  u2Done        \* its uDone

sender2Vars == << u2Pc, u2Msg, u2Done >>

jackVars ==
  << direct, context, client, port, hostPort, clientReady, releaseAck, rb,
     rbSpace, uPc, uPortPtr, uMsg, uRet, cbPc, cbPort, procPort, outBuf,
     written, consumed, cycleBase, cycleQuiet, nSends, lifeVars, uDone,
     sender2Vars >>

VARIABLES
  \* ---- PipeWire context (pipewire_context) ----
  globals,        \* the daemon's live globals: id -> its type and properties
  port_listener,  \* pipewire_context::port_listener
  proxies,        \* the bound port proxies not destroyed yet
  current_graph,  \* pipewire_context::current_graph
  pwEvent,        \* the latest event handled
  nEvents         \* events handled so far

pwVars ==
  << globals, port_listener, proxies, current_graph, pwEvent, nEvents >>

VARIABLES
  \* ---- CoreMIDI output object (midi_out_core) ----
  coreContext,    \* configuration.context supplied (externally owned client)
  coreClient,     \* coremidi_data::client as the host sees it
  corePort,       \* coremidi_data::port
  endpoint,       \* coremidi_data::endpoint (virtual source), 0 when none
  destinationId,  \* midi_out_core::destinationId, 0 when none
  \* ---- the thread inside midi_out_core::send_message ----
  cPc,            \* where the thread is inside send_message
  cMsg,           \* the message of the latest send_message call
  timestamp,      \* send_message's local timestamp
  remainingBytes, \* send_message's local remainingBytes
  packetList,     \* the packet list built in send_message's buffer
  cRet,           \* the last operation that returned and its error code
  \* ---- the host ----
  hostTime,       \* the host clock
  hostCalls,      \* MIDIReceived / MIDISend calls of the latest
                  \* send_message, in order, with what each was handed
  cSends          \* midi_out_core::send_message calls so far

coreVars ==
  << coreContext, coreClient, corePort, endpoint, destinationId, cPc, cMsg,
     timestamp, remainingBytes, packetList, cRet, hostTime, hostCalls,
     cSends >>

VARIABLES
  \* ---- PipeWire context: synchronize() and the main loop ----
  core,         \* pipewire_context::core is non-null
  pending,      \* pipewire_context::pending
  done,         \* pipewire_context::done
  syncPc,       \* where the thread is inside synchronize()
  nextSeq,      \* the sequence number pw_core_sync returned last
  inbox,        \* core done events sent to this client and not dispatched
                \* yet, each with the number of registry and port events
                \* sent before it
  sent,         \* registry and port events the daemon has sent
  replied,      \* the daemon has answered the latest sync request
  replyAfter,   \* registry and port events sent before that answer
  loopRuns,     \* main_loop_run calls so far
  nSyncs        \* synchronize() calls so far

syncVars ==
  << core, pending, done, syncPc, nextSeq, inbox, sent, replied, replyAfter,
     loopRuns, nSyncs >>

VARIABLES
  \* ---- PipeWire filter (pipewire_filter) ----
  filterPort,   \* pipewire_filter::port (NULL or the port's handle)
  hostFilterPorts, \* the handles of the ports the host's filter has
  node_id,      \* what filter_get_node_id returns
  nodeInputs,   \* this_node.inputs.size()
  fPc,          \* where the thread is inside a pipewire_filter operation
  kSync,        \* the local k of synchronize_node / synchronize_ports
  barriers,     \* loop->synchronize() calls of the latest operation
  fRet,         \* the last operation of the filter that returned
  nFilterOps    \* port operations on the filter so far

filterVars ==
  << filterPort, hostFilterPorts, node_id, nodeInputs, fPc, kSync, barriers,
     fRet, nFilterOps >>

vars == << jackVars, pwVars, coreVars, syncVars, filterVars >>

(***************************************************************************)
(* Error codes (std::errc) the operations return.                          *)
(***************************************************************************)
Success == "Success"
InvalidArgument == "InvalidArgument"
BadMessage == "BadMessage"
NoBufferSpace == "NoBufferSpace"
OperationNotSupported == "OperationNotSupported"
IoError == "IoError"
MessageSize == "MessageSize"
NotConnected == "NotConnected"
\* the operation has not returned yet
Pending == "Pending"

\* from_errc: the host's errno-style return code as a std::errc
from_errc(ret) ==
  CASE ret = "0" -> Success
    [] ret = "EINVAL" -> InvalidArgument
    [] ret = "ENOBUFS" -> NoBufferSpace
    [] OTHER -> "BackendStatus"

(***************************************************************************)
(* jack_ringbuffer_t as the JACK library implements it: a power-of-two     *)
(* byte array with a read and a write index; one byte is kept free.        *)
(***************************************************************************)
RECURSIVE RoundUpPow2From(_, _)
RoundUpPow2From(p, sz) == IF p >= sz THEN p ELSE RoundUpPow2From(2 * p, sz)

\* jack_ringbuffer_create(sz)
jack_ringbuffer_create(sz) ==
  LET n == RoundUpPow2From(2, sz)
  IN  [size |-> n, buf |-> [i \in 0..(n - 1) |-> 0], wp |-> 0, rp |-> 0]

jack_ringbuffer_write_space(r) ==
  IF r.wp > r.rp THEN ((r.rp - r.wp + r.size) % r.size) - 1
  ELSE IF r.wp < r.rp THEN (r.rp - r.wp) - 1
  ELSE r.size - 1

jack_ringbuffer_read_space(r) ==
  IF r.wp > r.rp THEN r.wp - r.rp ELSE (r.wp - r.rp + r.size) % r.size

\* jack_ringbuffer_write(r, data, cnt): copies at most the free space
jack_ringbuffer_write(r, data) ==
  LET n == Min(Len(data), jack_ringbuffer_write_space(r))
  IN  [r EXCEPT
        !.buf = [i \in 0..(r.size - 1) |->
                   LET k == (i - r.wp + r.size) % r.size
                   IN  IF k < n THEN data[k + 1] ELSE r.buf[i]],
        !.wp = (r.wp + n) % r.size]

\* jack_ringbuffer_write: the bytes of the call's first memcpy, which ends
\* at the end of the array; the write index is stored after it, and again
\* after the second memcpy when the data wraps around
jack_ringbuffer_write_n1(r, data) ==
  LET n == Min(Len(data), jack_ringbuffer_write_space(r))
  IN  IF r.wp + n > r.size THEN r.size - r.wp ELSE n

\* jack_ringbuffer_peek(r, dest, cnt): the bytes copied, the indexes untouched
jack_ringbuffer_peek(r, cnt) ==
  LET n == Min(cnt, jack_ringbuffer_read_space(r))
  IN  [k \in 1..n |-> r.buf[(r.rp + k - 1) % r.size]]

\* jack_ringbuffer_read_advance(r, cnt): no bound check in the library
jack_ringbuffer_read_advance(r, cnt) ==
  [r EXCEPT !.rp = (r.rp + cnt) % r.size]

\* jack_ringbuffer_read(r, dest, cnt): the ring after the read
jack_ringbuffer_read(r, cnt) ==
  jack_ringbuffer_read_advance(r, Min(cnt, jack_ringbuffer_read_space(r)))

(***************************************************************************)
(* The frame's length prefix: write() copies the first size_sz bytes of    *)
(* the int64_t sz (little-endian host), read() peeks them into an int32_t. *)
(***************************************************************************)
size_sz == 4

\* mutant: the prefix written most significant byte first
EncodeSizeBigEndian(sz) ==
  << (sz \div 16777216) % 256, (sz \div 65536) % 256, (sz \div 256) % 256,
     sz % 256 >>

EncodeSize(sz) ==
  << sz % 256, (sz \div 256) % 256, (sz \div 65536) % 256,
     (sz \div 16777216) % 256 >>

\* the four bytes as a two's-complement int32_t
DecodeSize(b) ==
  b[1] + 256 * b[2] + 65536 * b[3]
    + 16777216 * (IF b[4] >= 128 THEN b[4] - 256 ELSE b[4])

(***************************************************************************)
(* JACK output: construction.                                              *)
(***************************************************************************)
\* jack_helpers::connect: the client after the constructor's connect(*this);
\* openOk is whether the external context comes with its set_process_func
\* hook, or whether jack_client_open succeeds for a self-created client
connect(cfgContext, openOk) ==
  IF cfgContext THEN (IF openOk THEN 1 ELSE NULL)
  ELSE IF openOk THEN 1 ELSE NULL

\* jack_queue::jack_queue(sz)
jack_queue(sz) == jack_ringbuffer_create(sz)

\* jack_helpers::this_instance of this output, and the token of another
\* output that shares the external context
OtherInstance == 1
ThisInstance == 2

InitJack ==
  /\ direct \in BOOLEAN
  /\ context \in BOOLEAN
  /\ \E openOk \in BOOLEAN : client = connect(context, openOk)
  /\ port = NULL
  /\ hostPort = [p \in 1..MaxPorts |-> "free"]
  /\ clientReady = 0
  /\ releaseAck = 0
  /\ IF direct THEN rb = NoQueue
               ELSE \E sz \in RingbufferSizes : rb = jack_queue(sz)
  /\ rbSpace = IF direct THEN 0 ELSE jack_ringbuffer_write_space(rb)
  /\ uPc = "idle"
  /\ uPortPtr = NULL
  /\ uMsg = <<>>
  /\ uRet = [op |-> "none", err |-> Success]
  /\ cbPc = "idle"
  /\ cbPort = NULL
  /\ procPort = NULL
  /\ outBuf = <<>>
  /\ written = <<>>
  /\ consumed = 0
  /\ cycleBase = 0
  /\ cycleQuiet = FALSE
  /\ nSends = 0
  /\ hostRuns = TRUE
  /\ hostClient = IF context \/ client # NULL THEN "open" ELSE "none"
  /\ ctxFuncs = IF ~context THEN {}
                ELSE IF client # NULL THEN {OtherInstance, ThisInstance}
                ELSE {OtherInstance}
  /\ inDtor = FALSE
  /\ uDone = 0
  /\ u2Pc = "idle"
  /\ u2Msg = <<>>
  /\ u2Done = 0

\* what a step inside jack_queue::write leaves alone
WriterFrame ==
  /\ cycleQuiet' = FALSE
  /\ UNCHANGED << direct, context, client, rbSpace, cbPc, cbPort, procPort,
                  consumed, cycleBase >>
  /\ UNCHANGED lifeVars
  /\ UNCHANGED sender2Vars
  /\ UNCHANGED pwVars
  /\ UNCHANGED coreVars
  /\ UNCHANGED syncVars
  /\ UNCHANGED filterVars

\* what a user-thread step leaves alone on the realtime side
UserFrame ==
  /\ WriterFrame
  /\ UNCHANGED uDone

(***************************************************************************)
(* JACK output: open_port / open_virtual_port.                             *)
(***************************************************************************)
\* jack_port_register: a fresh port handle, or NULL when the host refuses
\* (regOk false, a NULL client)
jack_port_register(regOk) ==
  LET free == {p \in 1..MaxPorts : hostPort[p] = "free"}
  IN  IF regOk /\ client # NULL /\ free # {}
      THEN CHOOSE p \in free : \A q \in free : p <= q
      ELSE NULL

\* mutant: the name is refused only when it exceeds the limit (> for >=)
create_local_port_OffByOne(nameLen, regOk) ==
  LET len == IF nameLen = 0 THEN 1 ELSE nameLen
      reg == jack_port_register(regOk)
      newPort == IF port = NULL THEN reg ELSE port
  IN  IF ClientNameLen + len + 2 > PortNameSize
      THEN [err |-> InvalidArgument, port |-> port, hostPort |-> hostPort]
      ELSE [err |-> IF newPort = NULL THEN OperationNotSupported ELSE Success,
            port |-> newPort,
            hostPort |-> IF port = NULL /\ reg # NULL
                         THEN [hostPort EXCEPT ![reg] = "registered"]
                         ELSE hostPort]

\* jack_helpers::create_local_port: the error, the slot and the host's ports
\* after the call
create_local_port(nameLen, regOk) ==
  LET len == IF nameLen = 0 THEN 1 ELSE nameLen
      reg == jack_port_register(regOk)
      newPort == IF port = NULL THEN reg ELSE port
  IN  IF ClientNameLen + len + 2 >= PortNameSize
      THEN [err |-> InvalidArgument, port |-> port, hostPort |-> hostPort]
      ELSE [err |-> IF newPort = NULL THEN OperationNotSupported ELSE Success,
            port |-> newPort,
            hostPort |-> IF port = NULL /\ reg # NULL
                         THEN [hostPort EXCEPT ![reg] = "registered"]
                         ELSE hostPort]

\* midi_out_jack::open_virtual_port
open_virtual_port(nameLen, regOk) ==
  /\ uPc = "idle"
  /\ LET r == create_local_port(nameLen, regOk)
     IN  /\ port' = r.port
         /\ hostPort' = r.hostPort
         /\ uRet' = [op |-> "open_virtual_port", err |-> r.err]
  /\ UserFrame
  /\ UNCHANGED << clientReady, releaseAck, rb, uPc, uPortPtr, uMsg, outBuf,
                  written, nSends >>

\* midi_out_jack::open_port; connectRet is jack_connect's return code
open_port(nameLen, regOk, connectRet) ==
  /\ uPc = "idle"
  /\ LET r == create_local_port(nameLen, regOk)
     IN  /\ port' = r.port
         /\ hostPort' = r.hostPort
         /\ uRet' = [op |-> "open_port",
                     err |-> IF r.err # Success THEN r.err
                             ELSE from_errc(connectRet)]
  /\ UserFrame
  /\ UNCHANGED << clientReady, releaseAck, rb, uPc, uPortPtr, uMsg, outBuf,
                  written, nSends >>

(***************************************************************************)
(* JACK output: close_port (jack_helpers::do_close_port) and the           *)
(* client-release handshake (semaphore_pair_lock).                         *)
(***************************************************************************)
\* mutant: the port is unregistered right after the store, without the
\* handshake
do_close_port_begin_NoHandshake ==
  /\ uPc = "idle"
  /\ IF port = NULL
     THEN /\ uRet' = [op |-> "close_port", err |-> Success]
          /\ UNCHANGED << port, uPortPtr, uPc >>
     ELSE /\ uPortPtr' = port
          /\ port' = NULL
          /\ uPc' = "close_unreg"
          /\ uRet' = [op |-> "close_port", err |-> Pending]
  /\ UserFrame
  /\ UNCHANGED << hostPort, clientReady, releaseAck, rb, uMsg, outBuf,
                  written, nSends >>

\* mutant: no early return on a null slot
do_close_port_begin_NoNullCheck ==
  /\ uPc = "idle"
  /\ uPortPtr' = port
  /\ port' = NULL
  /\ uPc' = "close_post"
  /\ uRet' = [op |-> "close_port", err |-> Pending]
  /\ UserFrame
  /\ UNCHANGED << hostPort, clientReady, releaseAck, rb, uMsg, outBuf,
                  written, nSends >>

\* do_close_port up to the store of nullptr: the early return on a null
\* slot, else port_ptr = load and the store
do_close_port_begin ==
  /\ uPc = "idle"
  /\ IF port = NULL
     THEN /\ uRet' = [op |-> "close_port", err |-> Success]
          /\ UNCHANGED << port, uPortPtr, uPc >>
     ELSE /\ uPortPtr' = port
          /\ port' = NULL
          /\ uPc' = "close_post"
          /\ uRet' = [op |-> "close_port", err |-> Pending]
  /\ UserFrame
  /\ UNCHANGED << hostPort, clientReady, releaseAck, rb, uMsg, outBuf,
                  written, nSends >>

\* semaphore_pair_lock::prepare_release_client: post "client-ready"
prepare_release_post ==
  /\ uPc = "close_post"
  /\ clientReady' = clientReady + 1
  /\ uPc' = "close_wait"
  /\ UserFrame
  /\ UNCHANGED << port, hostPort, releaseAck, rb, uPortPtr, uMsg, uRet,
                  outBuf, written, nSends >>

\* semaphore_pair_lock::prepare_release_client: wait on "release-ack"
prepare_release_wait ==
  /\ uPc = "close_wait"
  /\ releaseAck > 0
  /\ releaseAck' = releaseAck - 1
  /\ uPc' = "close_unreg"
  /\ UserFrame
  /\ UNCHANGED << port, hostPort, clientReady, rb, uPortPtr, uMsg, uRet,
                  outBuf, written, nSends >>

\* jack_port_unregister(client, p): the host's ports after the call
jack_port_unregister(p) ==
  IF p \in DOMAIN hostPort
  THEN [hostPort EXCEPT ![p] = IF @ = "registered" THEN "unregistered"
                               ELSE "unregistered_twice"]
  ELSE hostPort

\* do_close_port step 3: unregister port_ptr and return
do_close_port_unregister ==
  /\ uPc = "close_unreg"
  /\ hostPort' = jack_port_unregister(uPortPtr)
  /\ uRet' = [op |-> "close_port", err |-> from_errc("0")]
  /\ uPc' = IF inDtor THEN "dtor_disconnect" ELSE "idle"
  /\ UserFrame
  /\ UNCHANGED << port, clientReady, releaseAck, rb, uPortPtr, uMsg, outBuf,
                  written, nSends >>

(***************************************************************************)
(* JACK output: send_message.                                              *)
(***************************************************************************)
\* mutant: the length prefix is left out of the test
TooLargeNoPrefix(sz) == sz > rbSpace

\* mutant: the test is made against the space free right now
TooLargeForFreeSpace(sz) == sz + size_sz > jack_ringbuffer_write_space(rb)

\* jack_queue::write's first test: the frame can never fit
TooLarge(sz) == sz + size_sz > rbSpace

\* midi_out_jack_queued::send_message -> jack_queue::write, up to the wait
jack_queue_write_begin(m) ==
  /\ uPc = "idle"
  /\ ~direct
  /\ nSends < MaxSends
  /\ nSends' = nSends + 1
  /\ uMsg' = m
  /\ IF TooLarge(Len(m))
     THEN /\ uRet' = [op |-> "send_message", err |-> NoBufferSpace]
          /\ UNCHANGED uPc
     ELSE /\ uPc' = "write_wait"
          /\ uRet' = [op |-> "send_message", err |-> Pending]
  /\ UserFrame
  /\ UNCHANGED << port, hostPort, clientReady, releaseAck, rb, uPortPtr,
                  outBuf, written >>

jack_queue_write_size_NoWait ==
  /\ uPc = "write_wait"
  /\ LET hdr == EncodeSize(Len(uMsg))
         n1 == jack_ringbuffer_write_n1(rb, hdr)
     IN  /\ rb' = jack_ringbuffer_write(rb, SubSeq(hdr, 1, n1))
         /\ IF n1 < Len(hdr)
            THEN uPc' = "write_size_wrap" /\ uDone' = n1
            ELSE uPc' = "write_data" /\ uDone' = 0
  /\ WriterFrame
  /\ UNCHANGED << port, hostPort, clientReady, releaseAck, uPortPtr, uMsg,
                  uRet, outBuf, written, nSends >>

\* jack_queue::write: the spin-yield loop ends, the length prefix is written
\* (up to the end of the array when it wraps around)
jack_queue_write_size ==
  /\ uPc = "write_wait"
  /\ ~(jack_ringbuffer_write_space(rb) < Len(uMsg) + size_sz)
  /\ LET hdr == EncodeSize(Len(uMsg))
         n1 == jack_ringbuffer_write_n1(rb, hdr)
     IN  /\ rb' = jack_ringbuffer_write(rb, SubSeq(hdr, 1, n1))
         /\ IF n1 < Len(hdr)
            THEN uPc' = "write_size_wrap" /\ uDone' = n1
            ELSE uPc' = "write_data" /\ uDone' = 0
  /\ WriterFrame
  /\ UNCHANGED << port, hostPort, clientReady, releaseAck, uPortPtr, uMsg,
                  uRet, outBuf, written, nSends >>

\* jack_queue::write: the payload is written (up to the end of the array
\* when it wraps around); write returns success when it is all in
jack_queue_write_data ==
  /\ uPc = "write_data"
  /\ LET n1 == jack_ringbuffer_write_n1(rb, uMsg)
     IN  /\ rb' = jack_ringbuffer_write(rb, SubSeq(uMsg, 1, n1))
         /\ IF n1 < Len(uMsg)
            THEN /\ uPc' = "write_data_wrap"
                 /\ uDone' = n1
                 /\ UNCHANGED << written, uRet >>
            ELSE /\ written' = Append(written, uMsg)
                 /\ uRet' = [op |-> "send_message", err |-> Success]
                 /\ uPc' = "idle"
                 /\ uDone' = 0
  /\ WriterFrame
  /\ UNCHANGED << port, hostPort, clientReady, releaseAck, uPortPtr, uMsg,
                  outBuf, nSends >>

\* jack_ringbuffer_write: the second memcpy of a call that wraps around, from
\* the start of the array, and the second store of the write index
jack_ringbuffer_write_wrap ==
  /\ uPc \in {"write_size_wrap", "write_data_wrap"}
  /\ LET data == IF uPc = "write_size_wrap" THEN EncodeSize(Len(uMsg))
                 ELSE uMsg
     IN  rb' = jack_ringbuffer_write(rb, SubSeq(data, uDone + 1, Len(data)))
  /\ uDone' = 0
  /\ IF uPc = "write_size_wrap"
     THEN /\ uPc' = "write_data"
          /\ UNCHANGED << written, uRet >>
     ELSE /\ written' = Append(written, uMsg)
          /\ uRet' = [op |-> "send_message", err |-> Success]
          /\ uPc' = "idle"
  /\ WriterFrame
  /\ UNCHANGED << port, hostPort, clientReady, releaseAck, uPortPtr, uMsg,
                  outBuf, nSends >>

\* the port's buffer is one the host can write events to
BufferValid(p) == p \in DOMAIN hostPort /\ hostPort[p] = "registered"

\* midi_out_jack_direct::send_message; hostRoom is whether the cycle's
\* buffer has room for the event
send_message_direct(m, hostRoom) ==
  /\ uPc = "idle"
  /\ direct
  /\ nSends < MaxSends
  /\ nSends' = nSends + 1
  /\ uMsg' = m
  /\ LET ret == IF ~BufferValid(port) THEN "EINVAL"
                ELSE IF hostRoom THEN "0" ELSE "ENOBUFS"
     IN  /\ outBuf' = IF ret = "0"
                      THEN Append(outBuf, [time |-> 0, data |-> m])
                      ELSE outBuf
         /\ uRet' = [op |-> "send_message", err |-> from_errc(ret)]
  /\ UserFrame
  /\ UNCHANGED << port, hostPort, clientReady, releaseAck, rb, uPc, uPortPtr,
                  written >>

(***************************************************************************)
(* JACK output: the realtime process callback.                             *)
(***************************************************************************)
\* what a realtime-thread step leaves alone on the user side
RealtimeFrame ==
  /\ UNCHANGED << direct, context, client, port, hostPort, rbSpace, uPc,
                  uPortPtr, uMsg, uRet, written, nSends >>
  /\ UNCHANGED lifeVars
  /\ UNCHANGED << uDone, sender2Vars >>
  /\ UNCHANGED pwVars
  /\ UNCHANGED coreVars
  /\ UNCHANGED syncVars
  /\ UNCHANGED filterVars

\* the callback of a self-created client (jack_set_process_callback): it
\* loads the slot; a null port ends the cycle by the early return, else
\* process then check_client_released
callback_own ==
  /\ cbPc = "idle"
  /\ client # NULL
  /\ ~context
  /\ hostRuns
  /\ hostClient = "open"
  /\ cbPort' = port
  /\ cbPc' = IF port = NULL THEN "return" ELSE "process"
  /\ RealtimeFrame
  /\ UNCHANGED << clientReady, releaseAck, rb, procPort, outBuf, consumed,
                  cycleBase, cycleQuiet >>

\* the self-created client's callback on a null port: return 0, with no call
\* of process or check_client_released
callback_return ==
  /\ cbPc = "return"
  /\ cbPc' = "idle"
  /\ RealtimeFrame
  /\ UNCHANGED << clientReady, releaseAck, rb, cbPort, procPort, outBuf,
                  consumed, cycleBase, cycleQuiet >>

\* mutant: the external-context callback returns on a null port as the
\* self-created client's callback does
callback_context_EarlyReturn ==
  /\ cbPc = "idle"
  /\ client # NULL
  /\ context
  /\ hostRuns
  /\ ThisInstance \in ctxFuncs
  /\ cbPort' = port
  /\ cbPc' = IF port # NULL THEN "process" ELSE "return"
  /\ RealtimeFrame
  /\ UNCHANGED << clientReady, releaseAck, rb, procPort, outBuf, consumed,
                  cycleBase, cycleQuiet >>

\* the callback handed to set_process_func (external context): it loads the
\* slot, calls process only with a port, and check_client_released on every
\* cycle
callback_context ==
  /\ cbPc = "idle"
  /\ client # NULL
  /\ context
  /\ hostRuns
  /\ ThisInstance \in ctxFuncs
  /\ cbPort' = port
  /\ cbPc' = IF port # NULL THEN "process" ELSE "check"
  /\ RealtimeFrame
  /\ UNCHANGED << clientReady, releaseAck, rb, procPort, outBuf, consumed,
                  cycleBase, cycleQuiet >>

\* process(): jack_port_get_buffer(this->port, nframes) and
\* jack_midi_clear_buffer; the queued variant goes on to queue.read
process ==
  /\ cbPc = "process"
  /\ procPort' = port
  /\ outBuf' = IF BufferValid(port) THEN <<>> ELSE outBuf
  /\ cbPc' = IF direct THEN "check" ELSE "read"
  /\ cycleBase' = consumed
  /\ cycleQuiet' = (uPc = "idle")
  /\ RealtimeFrame
  /\ UNCHANGED << clientReady, releaseAck, rb, cbPort, consumed >>

\* mutant: the loop takes a frame as soon as its length can be peeked
FrameReadable_NoSpaceTest(hdr) ==
  /\ Len(hdr) = size_sz
  /\ DecodeSize(hdr) >= 0 - size_sz

\* jack_queue::read's loop condition for the peeked header
FrameReadable(hdr) ==
  /\ Len(hdr) = size_sz
  /\ DecodeSize(hdr) >= 0 - size_sz
  /\ jack_ringbuffer_read_space(rb) >= size_sz + DecodeSize(hdr)

\* mutant: a frame whose reservation failed is left with its payload in the
\* queue
jack_queue_read_DiscardKeepsPayload(hostRoom) ==
  /\ cbPc = "read"
  /\ LET hdr == jack_ringbuffer_peek(rb, size_sz)
     IN  IF FrameReadable(hdr)
         THEN LET sz == DecodeSize(hdr)
                  r1 == jack_ringbuffer_read_advance(rb, size_sz)
                  payload == jack_ringbuffer_peek(r1, sz)
              IN  /\ consumed' = consumed + 1
                  /\ UNCHANGED cbPc
                  /\ IF hostRoom /\ BufferValid(procPort)
                     THEN /\ rb' = jack_ringbuffer_read(r1, sz)
                          /\ outBuf' = Append(outBuf,
                                              [time |-> 0, data |-> payload])
                          /\ UNCHANGED cycleQuiet
                     ELSE /\ rb' = r1
                          /\ cycleQuiet' = FALSE
                          /\ UNCHANGED outBuf
         ELSE /\ cbPc' = "check"
              /\ UNCHANGED << rb, outBuf, consumed, cycleQuiet >>
  /\ RealtimeFrame
  /\ UNCHANGED << clientReady, releaseAck, cbPort, procPort, cycleBase >>

\* jack_queue::read: one turn of the loop (a frame is taken off the queue,
\* copied into the reserved event or discarded), or the loop's exit;
\* hostRoom is whether jack_midi_event_reserve finds room
jack_queue_read(hostRoom) ==
  /\ cbPc = "read"
  /\ LET hdr == jack_ringbuffer_peek(rb, size_sz)
     IN  IF FrameReadable(hdr)
         THEN LET sz == DecodeSize(hdr)
                  r1 == jack_ringbuffer_read_advance(rb, size_sz)
                  payload == jack_ringbuffer_peek(r1, sz)
              IN  /\ consumed' = consumed + 1
                  /\ UNCHANGED cbPc
                  /\ IF hostRoom /\ BufferValid(procPort)
                     THEN /\ rb' = jack_ringbuffer_read(r1, sz)
                          /\ outBuf' = Append(outBuf,
                                              [time |-> 0, data |-> payload])
                          /\ UNCHANGED cycleQuiet
                     ELSE /\ rb' = jack_ringbuffer_read_advance(r1, sz)
                          /\ cycleQuiet' = FALSE
                          /\ UNCHANGED outBuf
         ELSE /\ cbPc' = "check"
              /\ UNCHANGED << rb, outBuf, consumed, cycleQuiet >>
  /\ RealtimeFrame
  /\ UNCHANGED << clientReady, releaseAck, cbPort, procPort, cycleBase >>

\* semaphore_pair_lock::check_client_released: try-acquire "client-ready",
\* and post "release-ack" if it was posted
check_client_released ==
  /\ cbPc = "check"
  /\ IF clientReady > 0
     THEN /\ clientReady' = clientReady - 1
          /\ releaseAck' = releaseAck + 1
     ELSE UNCHANGED << clientReady, releaseAck >>
  /\ cbPc' = "idle"
  /\ cbPort' = NULL
  /\ procPort' = NULL
  /\ cycleQuiet' = FALSE
  /\ RealtimeFrame
  /\ UNCHANGED << rb, outBuf, consumed, cycleBase >>

(***************************************************************************)
(* The JACK output's specification: one user thread and the realtime       *)
(* thread.                                                                 *)
(***************************************************************************)
HostReturns == {"0", "EEXIST"}

UserCall ==
  \/ \E n \in PortNameLens, ok \in BOOLEAN : open_virtual_port(n, ok)
  \/ \E n \in PortNameLens, ok \in BOOLEAN, c \in HostReturns :
       open_port(n, ok, c)
  \/ do_close_port_begin
  \/ \E m \in Msgs : jack_queue_write_begin(m)
  \/ \E m \in Msgs, room \in BOOLEAN : send_message_direct(m, room)

UserStep ==
  \/ prepare_release_post
  \/ prepare_release_wait
  \/ do_close_port_unregister
  \/ jack_queue_write_size
  \/ jack_queue_write_data
  \/ jack_ringbuffer_write_wrap

RealtimeStep ==
  \/ callback_own
  \/ callback_return
  \/ callback_context
  \/ process
  \/ \E room \in BOOLEAN : jack_queue_read(room)
  \/ check_client_released

JackNext == UserCall \/ UserStep \/ RealtimeStep

(***************************************************************************)
(* JACK output: a second thread calling send_message on the same queued    *)
(* output. The two threads' jack_ringbuffer_write calls are interleaved    *)
(* call by call (memcpy by memcpy when a call wraps around).               *)
(***************************************************************************)
\* what a step of the second sender leaves alone
Sender2Frame ==
  /\ cycleQuiet' = FALSE
  /\ UNCHANGED << direct, context, client, rbSpace, cbPc, cbPort, procPort,
                  consumed, cycleBase, port, hostPort, clientReady,
                  releaseAck, uPc, uPortPtr, uMsg, uRet, outBuf, uDone >>
  /\ UNCHANGED lifeVars
  /\ UNCHANGED pwVars
  /\ UNCHANGED coreVars
  /\ UNCHANGED syncVars
  /\ UNCHANGED filterVars

\* midi_out_jack_queued::send_message -> jack_queue::write, up to the wait
sender2_write_begin(m) ==
  /\ u2Pc = "idle"
  /\ ~direct
  /\ nSends < MaxSends
  /\ nSends' = nSends + 1
  /\ u2Msg' = m
  /\ u2Pc' = IF TooLarge(Len(m)) THEN "idle" ELSE "write_wait"
  /\ Sender2Frame
  /\ UNCHANGED << rb, written, u2Done >>

\* jack_queue::write: the loop ends, the length prefix is written
sender2_write_size ==
  /\ u2Pc = "write_wait"
  /\ ~(jack_ringbuffer_write_space(rb) < Len(u2Msg) + size_sz)
  /\ LET hdr == EncodeSize(Len(u2Msg))
         n1 == jack_ringbuffer_write_n1(rb, hdr)
     IN  /\ rb' = jack_ringbuffer_write(rb, SubSeq(hdr, 1, n1))
         /\ IF n1 < Len(hdr)
            THEN u2Pc' = "write_size_wrap" /\ u2Done' = n1
            ELSE u2Pc' = "write_data" /\ u2Done' = 0
  /\ Sender2Frame
  /\ UNCHANGED << u2Msg, written, nSends >>

\* jack_queue::write: the payload is written, write returns success
sender2_write_data ==
  /\ u2Pc = "write_data"
  /\ LET n1 == jack_ringbuffer_write_n1(rb, u2Msg)
     IN  /\ rb' = jack_ringbuffer_write(rb, SubSeq(u2Msg, 1, n1))
         /\ IF n1 < Len(u2Msg)
            THEN /\ u2Pc' = "write_data_wrap"
                 /\ u2Done' = n1
                 /\ UNCHANGED written
            ELSE /\ written' = Append(written, u2Msg)
                 /\ u2Pc' = "idle"
                 /\ u2Done' = 0
  /\ Sender2Frame
  /\ UNCHANGED << u2Msg, nSends >>

\* jack_ringbuffer_write: the second memcpy of a call that wraps around
sender2_write_wrap ==
  /\ u2Pc \in {"write_size_wrap", "write_data_wrap"}
  /\ LET data == IF u2Pc = "write_size_wrap" THEN EncodeSize(Len(u2Msg))
                 ELSE u2Msg
     IN  rb' = jack_ringbuffer_write(rb, SubSeq(data, u2Done + 1, Len(data)))
  /\ u2Done' = 0
  /\ IF u2Pc = "write_size_wrap"
     THEN u2Pc' = "write_data" /\ UNCHANGED written
     ELSE written' = Append(written, u2Msg) /\ u2Pc' = "idle"
  /\ Sender2Frame
  /\ UNCHANGED << u2Msg, nSends >>

\* the queued output on an external context with its port open or not, two
\* sending threads and the realtime thread
TwoSendersNext ==
  \/ \E n \in PortNameLens, ok \in BOOLEAN : open_virtual_port(n, ok)
  \/ \E m \in Msgs : jack_queue_write_begin(m)
  \/ jack_queue_write_size
  \/ jack_queue_write_data
  \/ jack_ringbuffer_write_wrap
  \/ \E m \in Msgs : sender2_write_begin(m)
  \/ sender2_write_size
  \/ sender2_write_data
  \/ sender2_write_wrap
  \/ callback_context
  \/ process
  \/ \E room \in BOOLEAN : jack_queue_read(room)
  \/ check_client_released

(***************************************************************************)
(* JACK output: destruction, and a host that stops invoking the callback.  *)
(***************************************************************************)
\* ~midi_out_jack_queued / ~midi_out_jack_direct: midi_out_jack::close_port()
\* up to the store of nullptr, disconnect(*this) being next
destructor_begin ==
  /\ uPc = "idle"
  /\ ~inDtor
  /\ inDtor' = TRUE
  /\ IF port = NULL
     THEN /\ uRet' = [op |-> "close_port", err |-> Success]
          /\ uPc' = "dtor_disconnect"
          /\ UNCHANGED << port, uPortPtr >>
     ELSE /\ uPortPtr' = port
          /\ port' = NULL
          /\ uPc' = "close_post"
          /\ uRet' = [op |-> "close_port", err |-> Pending]
  /\ cycleQuiet' = FALSE
  /\ UNCHANGED << direct, context, client, rbSpace, cbPc, cbPort, procPort,
                  consumed, cycleBase, hostPort, clientReady, releaseAck, rb,
                  uMsg, outBuf, written, nSends, hostRuns, hostClient,
                  ctxFuncs, uDone, sender2Vars >>
  /\ UNCHANGED pwVars
  /\ UNCHANGED coreVars
  /\ UNCHANGED syncVars
  /\ UNCHANGED filterVars

\* mutant: the client is closed whoever owns it
disconnect_ClosesAnyClient ==
  /\ uPc = "dtor_disconnect"
  /\ ctxFuncs' = IF context THEN ctxFuncs \ {ThisInstance} ELSE ctxFuncs
  /\ hostClient' = IF client # NULL THEN "closed" ELSE hostClient
  /\ uPc' = "destroyed"
  /\ uRet' = [op |-> "disconnect", err |-> Success]
  /\ cycleQuiet' = FALSE
  /\ UNCHANGED << direct, context, client, rbSpace, cbPc, cbPort, procPort,
                  consumed, cycleBase, port, hostPort, clientReady,
                  releaseAck, rb, uPortPtr, uMsg, outBuf, written, nSends,
                  hostRuns, inDtor, uDone, sender2Vars >>
  /\ UNCHANGED pwVars
  /\ UNCHANGED coreVars
  /\ UNCHANGED syncVars
  /\ UNCHANGED filterVars

\* jack_helpers::disconnect: with an external context, clear the process
\* function registered under this_instance; close a client of its own
disconnect ==
  /\ uPc = "dtor_disconnect"
  /\ ctxFuncs' = IF context THEN ctxFuncs \ {ThisInstance} ELSE ctxFuncs
  /\ hostClient' = IF client # NULL /\ ~context THEN "closed" ELSE hostClient
  /\ uPc' = "destroyed"
  /\ uRet' = [op |-> "disconnect", err |-> Success]
  /\ cycleQuiet' = FALSE
  /\ UNCHANGED << direct, context, client, rbSpace, cbPc, cbPort, procPort,
                  consumed, cycleBase, port, hostPort, clientReady,
                  releaseAck, rb, uPortPtr, uMsg, outBuf, written, nSends,
                  hostRuns, inDtor, uDone, sender2Vars >>
  /\ UNCHANGED pwVars
  /\ UNCHANGED coreVars
  /\ UNCHANGED syncVars
  /\ UNCHANGED filterVars

\* the host stops invoking the process callback (the server went away, the
\* owner of the external context stopped its cycle); a cycle under way ends
host_stops ==
  /\ hostRuns
  /\ hostRuns' = FALSE
  /\ UNCHANGED << direct, context, client, port, hostPort, clientReady,
                  releaseAck, rb, rbSpace, uPc, uPortPtr, uMsg, uRet, cbPc,
                  cbPort, procPort, outBuf, written, consumed, cycleBase,
                  cycleQuiet, nSends, hostClient, ctxFuncs, inDtor, uDone,
                  sender2Vars >>
  /\ UNCHANGED pwVars
  /\ UNCHANGED coreVars
  /\ UNCHANGED syncVars
  /\ UNCHANGED filterVars

\* mutant: the wait on "release-ack" has no time bound
prepare_release_cancel_Never ==
  /\ FALSE
  /\ UNCHANGED vars

\* semaphore_pair_lock::prepare_release_client: the wait on "release-ack"
\* is given up when the callback is not being invoked
prepare_release_cancel ==
  /\ uPc = "close_wait"
  /\ ~hostRuns
  /\ cbPc = "idle"
  /\ releaseAck = 0
  /\ uPc' = "close_unreg"
  /\ UserFrame
  /\ UNCHANGED << port, hostPort, clientReady, releaseAck, rb, uPortPtr,
                  uMsg, uRet, outBuf, written, nSends >>

\* the direct output over its whole life: the user thread, the realtime
\* thread, the destructor and a host that may stop
LifeUserCall ==
  \/ \E n \in PortNameLens, ok \in BOOLEAN : open_virtual_port(n, ok)
  \/ \E n \in PortNameLens, ok \in BOOLEAN, c \in HostReturns :
       open_port(n, ok, c)
  \/ do_close_port_begin
  \/ \E m \in Msgs, room \in BOOLEAN : send_message_direct(m, room)
  \/ destructor_begin

LifeUserStep ==
  \/ prepare_release_post
  \/ prepare_release_wait
  \/ prepare_release_cancel
  \/ do_close_port_unregister
  \/ disconnect

LifeRealtimeStep ==
  \/ callback_own
  \/ callback_return
  \/ callback_context
  \/ process
  \/ check_client_released

LifeNext == LifeUserCall \/ LifeUserStep \/ LifeRealtimeStep \/ host_stops

(***************************************************************************)
(* PipeWire context: the registry listener and the port graph.             *)
(***************************************************************************)
\* a port global's properties
Props(f, n, ph, d) ==
  [format_dsp |-> f, node_id |-> n, port_physical |-> ph, port_direction |-> d]

\* the properties of the port globals the daemon announces: ports of every
\* map and direction, a video port, a port without format.dsp and a port
\* without node.id
PortProps ==
  { Props(<< "8", "bit", "raw", "midi" >>, << 7 >>, "true", "out"),
    Props(<< "8", "bit", "raw", "midi" >>, << 7 >>, "false", "in"),
    Props(<< "32", "bit", "float", "mono", "audio" >>, << 4, 2 >>, "true", "in"),
    Props(<< "32", "bit", "float", "mono", "audio" >>, << 4, 2 >>, "false", "out"),
    Props(<< "32", "bit", "float", "RGBA", "video" >>, << 7 >>, "true", "out"),
    Props(<< >>, << 4, 2 >>, "false", "in"),
    Props(<< "8", "bit", "raw", "midi" >>, << >>, "false", "out") }

Ids == 1..MaxIds

NoGlobal == [type |-> "none"]

\* std::string::find(word) != npos
Contains(format, word) == \E i \in 1..Len(format) : format[i] = word

\* std::stoul on a string of decimal digits
RECURSIVE stoul(_)
stoul(str) ==
  IF Len(str) = 0 THEN 0
  ELSE 10 * stoul(SubSeq(str, 1, Len(str) - 1)) + str[Len(str)]

\* a node with no ports: what operator[] inserts for a new key
EmptyNode == [inputs |-> << >>, outputs |-> << >>]

MapNames ==
  {"physical_audio", "physical_midi", "software_audio", "software_midi"}

EmptyGraph == [m \in MapNames |-> << >>]

\* register_port: the port_info parsed from the event's dictionary
parse_port_info(id, props) ==
  [id |-> id,
   format |-> props.format_dsp,
   node_id |-> props.node_id,
   physical |-> (props.port_physical = "true"),
   direction |-> IF props.port_direction = "out" THEN "output" ELSE "input"]

classify_IgnoresPhysical(p) ==
  IF Contains(p.format, "audio") THEN "software_audio"
  ELSE IF Contains(p.format, "midi") THEN "software_midi"
  ELSE "none"

\* register_port: the map the port goes to, "none" for no map
classify(p) ==
  IF p.physical
  THEN IF Contains(p.format, "audio") THEN "physical_audio"
       ELSE IF Contains(p.format, "midi") THEN "physical_midi"
       ELSE "none"
  ELSE IF Contains(p.format, "audio") THEN "software_audio"
       ELSE IF Contains(p.format, "midi") THEN "software_midi"
       ELSE "none"

\* map[nid].outputs.push_back(p) or map[nid].inputs.push_back(p)
push_back(map, nid, p) ==
  LET node == IF nid \in DOMAIN map THEN map[nid] ELSE EmptyNode
      node2 == IF p.direction = "output"
               THEN [node EXCEPT !.outputs = Append(@, p)]
               ELSE [node EXCEPT !.inputs = Append(@, p)]
  IN  [k \in (DOMAIN map) \cup {nid} |-> IF k = nid THEN node2 ELSE map[k]]

\* pipewire_context::register_port: the graph after a port-info event
register_port(g, id, props) ==
  LET p == parse_port_info(id, props)
      m == classify(p)
  IN  IF p.node_id = << >> \/ m = "none"
      THEN g
      ELSE [g EXCEPT ![m] = push_back(@, stoul(p.node_id), p)]

\* std::erase_if(vec, [id](const port_info& p) { return p.id == id; })
erase_id(vec, id) == SelectSeq(vec, LAMBDA p : p.id # id)

\* mutant: the port is erased from the inputs only
remove_port_InputsOnly(g, id) ==
  [m \in MapNames |->
     [k \in DOMAIN g[m] |->
        [inputs |-> erase_id(g[m][k].inputs, id),
         outputs |-> g[m][k].outputs]]]

\* pipewire_context::graph::remove_port
remove_port(g, id) ==
  [m \in MapNames |->
     [k \in DOMAIN g[m] |->
        [inputs |-> erase_id(g[m][k].inputs, id),
         outputs |-> erase_id(g[m][k].outputs, id)]]]

InitPw ==
  /\ globals = [i \in Ids |-> NoGlobal]
  /\ port_listener = << >>
  /\ proxies = {}
  /\ current_graph = EmptyGraph
  /\ pwEvent = [type |-> "none", id |-> 0]
  /\ nEvents = 0

\* registry_events.global for a port: bind a proxy, keep it with its
\* listener; the proxy's handle is the number of the event that bound it
registry_global_port(id, props) ==
  /\ nEvents < MaxEvents
  /\ globals[id] = NoGlobal
  /\ globals' = [globals EXCEPT ![id] = [type |-> "Port", props |-> props]]
  /\ LET l == [id |-> id, port |-> nEvents + 1]
     IN  /\ port_listener' = Append(port_listener, l)
         /\ proxies' = proxies \cup {l}
  /\ pwEvent' = [type |-> "global", id |-> id]
  /\ nEvents' = nEvents + 1
  /\ UNCHANGED current_graph
  /\ UNCHANGED jackVars
  /\ UNCHANGED coreVars
  /\ UNCHANGED syncVars
  /\ UNCHANGED filterVars

\* registry_events.global for an object of another type: nothing is done
registry_global_other(id) ==
  /\ nEvents < MaxEvents
  /\ globals[id] = NoGlobal
  /\ globals' = [globals EXCEPT ![id] = [type |-> "Node"]]
  /\ pwEvent' = [type |-> "global", id |-> id]
  /\ nEvents' = nEvents + 1
  /\ UNCHANGED << port_listener, proxies, current_graph >>
  /\ UNCHANGED jackVars
  /\ UNCHANGED coreVars
  /\ UNCHANGED syncVars
  /\ UNCHANGED filterVars

\* std::find_if over port_listener: the index of the first listener with
\* this id, 0 for end()
find_listener(id) ==
  IF \E i \in 1..Len(port_listener) : port_listener[i].id = id
  THEN CHOOSE i \in 1..Len(port_listener) :
         /\ port_listener[i].id = id
         /\ \A j \in 1..(i - 1) : port_listener[j].id # id
  ELSE 0

\* std::vector::erase(it)
erase_at(vec, i) == SubSeq(vec, 1, i - 1) \o SubSeq(vec, i + 1, Len(vec))

\* registry_events.global_remove
registry_global_remove(id) ==
  /\ nEvents < MaxEvents
  /\ globals[id] # NoGlobal
  /\ globals' = [globals EXCEPT ![id] = NoGlobal]
  /\ current_graph' = remove_port(current_graph, id)
  /\ LET it == find_listener(id)
     IN  IF it # 0
         THEN /\ proxies' = proxies \ {port_listener[it]}
              /\ port_listener' = erase_at(port_listener, it)
         ELSE UNCHANGED << port_listener, proxies >>
  /\ pwEvent' = [type |-> "global_remove", id |-> id]
  /\ nEvents' = nEvents + 1
  /\ UNCHANGED jackVars
  /\ UNCHANGED coreVars
  /\ UNCHANGED syncVars
  /\ UNCHANGED filterVars

\* port_events.info: the daemon sends a live port's info to its bound proxy,
\* when it is bound and again whenever the port changes
port_info_event(id) ==
  /\ nEvents < MaxEvents
  /\ globals[id].type = "Port"
  /\ \E l \in proxies : l.id = id
  /\ current_graph' = register_port(current_graph, id, globals[id].props)
  /\ pwEvent' = [type |-> "info", id |-> id]
  /\ nEvents' = nEvents + 1
  /\ UNCHANGED << globals, port_listener, proxies >>
  /\ UNCHANGED jackVars
  /\ UNCHANGED coreVars
  /\ UNCHANGED syncVars
  /\ UNCHANGED filterVars

PwNext ==
  \/ \E id \in Ids, props \in PortProps : registry_global_port(id, props)
  \/ \E id \in Ids : registry_global_other(id)
  \/ \E id \in Ids : registry_global_remove(id)
  \/ \E id \in Ids : port_info_event(id)

(***************************************************************************)
(* PipeWire context: synchronize() and the events the main loop dispatches *)
(* while it runs.                                                          *)
(***************************************************************************)
PW_ID_CORE == 0

\* the context after its constructor's connection attempt, before any
\* synchronize(); core is null when context_connect failed
InitSync ==
  /\ core \in BOOLEAN
  /\ pending = 0
  /\ done = 0
  /\ syncPc = "idle"
  /\ nextSeq = 0
  /\ inbox = << >>
  /\ sent = 0
  /\ replied = FALSE
  /\ replyAfter = 0
  /\ loopRuns = 0
  /\ nSyncs = 0

\* a context whose synchronize() is not looked at
InitSyncUnused == InitSync /\ core

\* what a step of synchronize() or of the daemon leaves alone
SyncFrame ==
  /\ UNCHANGED jackVars
  /\ UNCHANGED pwVars
  /\ UNCHANGED coreVars
  /\ UNCHANGED filterVars

\* synchronize() up to its loop: pending and done are reset; without a core
\* it returns, otherwise the listener is added and pw_core_sync is called
synchronize_begin ==
  /\ syncPc = "idle"
  /\ nSyncs < MaxSyncs
  /\ nSyncs' = nSyncs + 1
  /\ done' = 0
  /\ IF ~core
     THEN /\ pending' = 0
          /\ UNCHANGED << syncPc, nextSeq, replied, replyAfter >>
     ELSE /\ nextSeq' = nextSeq + 1
          /\ pending' = nextSeq + 1
          /\ replied' = FALSE
          /\ replyAfter' = 0
          /\ syncPc' = "loop"
  /\ UNCHANGED << core, inbox, sent, loopRuns >>
  /\ SyncFrame

\* while (!done) pw.main_loop_run(main_loop)
main_loop_run ==
  /\ syncPc = "loop"
  /\ done = 0
  /\ syncPc' = "run"
  /\ loopRuns' = loopRuns + 1
  /\ UNCHANGED << core, pending, done, nextSeq, inbox, sent, replied,
                  replyAfter, nSyncs >>
  /\ SyncFrame

\* the loop test fails: spa_hook_remove, synchronize() returns
synchronize_return ==
  /\ syncPc = "loop"
  /\ done # 0
  /\ syncPc' = "idle"
  /\ UNCHANGED << core, pending, done, nextSeq, inbox, sent, replied,
                  replyAfter, loopRuns, nSyncs >>
  /\ SyncFrame

core_done_AnySeq(id, seq) == id = PW_ID_CORE

\* core_events.done: the test that ends the barrier
core_done(id, seq) == id = PW_ID_CORE /\ seq = pending

\* the main loop dispatches the next event, a core done event: every
\* registry and port event sent before it has been dispatched
loop_dispatch_done ==
  /\ syncPc = "run"
  /\ inbox # << >>
  /\ Head(inbox).after <= nEvents
  /\ inbox' = Tail(inbox)
  /\ IF core_done(Head(inbox).id, Head(inbox).seq)
     THEN /\ done' = 1
          /\ syncPc' = "loop"
     ELSE UNCHANGED << done, syncPc >>
  /\ UNCHANGED << core, pending, nextSeq, sent, replied, replyAfter,
                  loopRuns, nSyncs >>
  /\ SyncFrame

\* the port a registry event announces while barriers are modelled
SyncPortProps == Props(<< "8", "bit", "raw", "midi" >>, << 7 >>, "false", "in")

\* the main loop dispatches the next event, a registry or port event, to
\* its handler
loop_dispatch_registry ==
  /\ syncPc = "run"
  /\ nEvents < sent
  /\ (inbox # << >> => Head(inbox).after > nEvents)
  /\ \/ \E id \in Ids : registry_global_port(id, SyncPortProps)
     \/ \E id \in Ids : registry_global_remove(id)
     \/ \E id \in Ids : port_info_event(id)

\* pw_main_loop_run returns without the barrier's done (an error of the
\* loop, or a quit that is not this barrier's)
main_loop_run_returns ==
  /\ syncPc = "run"
  /\ loopRuns < MaxLoopRuns
  /\ syncPc' = "loop"
  /\ UNCHANGED << core, pending, done, nextSeq, inbox, sent, replied,
                  replyAfter, loopRuns, nSyncs >>
  /\ SyncFrame

\* the daemon answers the sync request: done(PW_ID_CORE, seq)
daemon_sync_reply ==
  /\ syncPc # "idle"
  /\ ~replied
  /\ Len(inbox) < MaxInbox
  /\ inbox' = Append(inbox, [id |-> PW_ID_CORE, seq |-> nextSeq,
                             after |-> sent])
  /\ replied' = TRUE
  /\ replyAfter' = sent
  /\ UNCHANGED << core, pending, done, syncPc, nextSeq, sent, loopRuns,
                  nSyncs >>
  /\ SyncFrame

\* the daemon sends a done event that is not the answer: of another object,
\* or of a sync request another user of the core made (sequence number 0)
daemon_other_done(id, seq) ==
  /\ core
  /\ Len(inbox) < MaxInbox
  /\ ~(id = PW_ID_CORE /\ seq = nextSeq)
  /\ inbox' = Append(inbox, [id |-> id, seq |-> seq, after |-> sent])
  /\ UNCHANGED << core, pending, done, syncPc, nextSeq, sent, replied,
                  replyAfter, loopRuns, nSyncs >>
  /\ SyncFrame

\* the daemon sends a registry or a port event
daemon_registry_event ==
  /\ core
  /\ sent < MaxSent
  /\ sent' = sent + 1
  /\ UNCHANGED << core, pending, done, syncPc, nextSeq, inbox, replied,
                  replyAfter, loopRuns, nSyncs >>
  /\ SyncFrame

SyncNext ==
  \/ synchronize_begin
  \/ main_loop_run
  \/ synchronize_return
  \/ loop_dispatch_done
  \/ loop_dispatch_registry
  \/ main_loop_run_returns
  \/ daemon_sync_reply
  \/ \E id \in {PW_ID_CORE, 1}, seq \in {0, nextSeq} :
       daemon_other_done(id, seq)
  \/ daemon_registry_event

(***************************************************************************)
(* PipeWire filter: the local port and the bounded waits. A call of        *)
(* loop->synchronize() is one step here: a barrier during which the        *)
(* daemon's events may have given the filter its node id or the node its   *)
(* port.                                                                   *)
(***************************************************************************)
\* the node id of a filter that has none, 4294967295, and the one the
\* daemon gives it; node ids are written as decimal strings, 4294967295
\* being no 32-bit signed number
SPA_ID_INVALID == "4294967295"

FilterNodeId == "7"

\* the number k is tested against in synchronize_node and synchronize_ports
MaxSyncIterations == 100

\* synchronize_ports' num_local_ins
num_local_ins == 1

InitFilter ==
  /\ filterPort = NULL
  /\ hostFilterPorts = {}
  /\ node_id = SPA_ID_INVALID
  /\ nodeInputs = 0
  /\ fPc = "idle"
  /\ kSync = 0
  /\ barriers = 0
  /\ fRet = [op |-> "none", assert |-> "held"]
  /\ nFilterOps = 0

\* what an operation of the filter leaves alone
FilterFrame ==
  /\ UNCHANGED jackVars
  /\ UNCHANGED pwVars
  /\ UNCHANGED coreVars
  /\ UNCHANGED syncVars

\* pipewire_filter::create_local_port; ok: filter_add_port returns a port.
\* assert(port) fails otherwise: the build aborts or, with NDEBUG, goes on
filter_create_local_port(ok, ndebug) ==
  /\ fPc = "idle"
  /\ nFilterOps < MaxFilterOps
  /\ nFilterOps' = nFilterOps + 1
  /\ IF ok
     THEN /\ filterPort' = nFilterOps + 1
          /\ hostFilterPorts' = hostFilterPorts \cup {nFilterOps + 1}
          /\ fRet' = [op |-> "create_local_port", assert |-> "held"]
          /\ UNCHANGED fPc
     ELSE /\ filterPort' = NULL
          /\ fRet' = [op |-> "create_local_port", assert |-> "failed"]
          /\ fPc' = IF ndebug THEN "idle" ELSE "aborted"
          /\ UNCHANGED hostFilterPorts
  /\ UNCHANGED << node_id, nodeInputs, kSync, barriers >>
  /\ FilterFrame

\* pipewire_filter::remove_port; when assert(port) fails the build aborts
\* or, with NDEBUG, hands the null port to filter_remove_port
filter_remove_port(ndebug) ==
  /\ fPc = "idle"
  /\ nFilterOps < MaxFilterOps
  /\ nFilterOps' = nFilterOps + 1
  /\ IF filterPort # NULL
     THEN /\ hostFilterPorts' = hostFilterPorts \ {filterPort}
          /\ fRet' = [op |-> "remove_port", assert |-> "held"]
          /\ UNCHANGED fPc
     ELSE /\ fRet' = [op |-> "remove_port", assert |-> "failed"]
          /\ fPc' = IF ndebug THEN "idle" ELSE "aborted"
          /\ UNCHANGED hostFilterPorts
  /\ filterPort' = NULL
  /\ UNCHANGED << node_id, nodeInputs, kSync, barriers >>
  /\ FilterFrame

\* pipewire_filter::rename_port: the properties of the port are updated and
\* the handle is set to nullptr
filter_rename_port(ndebug) ==
  /\ fPc = "idle"
  /\ nFilterOps < MaxFilterOps
  /\ nFilterOps' = nFilterOps + 1
  /\ IF filterPort # NULL
     THEN /\ fRet' = [op |-> "rename_port", assert |-> "held"]
          /\ UNCHANGED fPc
     ELSE /\ fRet' = [op |-> "rename_port", assert |-> "failed"]
          /\ fPc' = IF ndebug THEN "idle" ELSE "aborted"
  /\ filterPort' = NULL
  /\ UNCHANGED << hostFilterPorts, node_id, nodeInputs, kSync, barriers >>
  /\ FilterFrame

\* filter_node_id() after a barrier; acquired: the filter has got its node
\* id by now
filter_node_id(acquired) ==
  IF node_id = SPA_ID_INVALID /\ acquired THEN FilterNodeId ELSE node_id

\* synchronize_node up to its loop: one barrier, k = 0, the node id is read
synchronize_node_begin(acquired) ==
  /\ fPc = "idle"
  /\ nFilterOps < MaxFilterOps
  /\ nFilterOps' = nFilterOps + 1
  /\ barriers' = 1
  /\ kSync' = 0
  /\ node_id' = filter_node_id(acquired)
  /\ fPc' = "synchronize_node"
  /\ fRet' = [op |-> "synchronize_node", assert |-> "pending"]
  /\ UNCHANGED << filterPort, hostFilterPorts, nodeInputs >>
  /\ FilterFrame

\* if (k++; k > 100) return; with n the value of k after the increment
synchronize_bound(n) == n > MaxSyncIterations

\* synchronize_node: the loop test, and one iteration of the loop
synchronize_node_loop(acquired) ==
  /\ fPc = "synchronize_node"
  /\ IF node_id # SPA_ID_INVALID
     THEN /\ fPc' = "idle"
          /\ fRet' = [op |-> "synchronize_node", assert |-> "held"]
          /\ UNCHANGED << node_id, kSync, barriers >>
     ELSE /\ barriers' = barriers + 1
          /\ node_id' = filter_node_id(acquired)
          /\ kSync' = kSync + 1
          /\ IF synchronize_bound(kSync + 1)
             THEN /\ fPc' = "idle"
                  /\ fRet' = [op |-> "synchronize_node", assert |-> "held"]
             ELSE UNCHANGED << fPc, fRet >>
  /\ UNCHANGED << filterPort, hostFilterPorts, nodeInputs, nFilterOps >>
  /\ FilterFrame

\* synchronize_ports up to its loop: k = 0
synchronize_ports_begin ==
  /\ fPc = "idle"
  /\ nFilterOps < MaxFilterOps
  /\ nFilterOps' = nFilterOps + 1
  /\ barriers' = 0
  /\ kSync' = 0
  /\ fPc' = "synchronize_ports"
  /\ fRet' = [op |-> "synchronize_ports", assert |-> "pending"]
  /\ UNCHANGED << filterPort, hostFilterPorts, node_id, nodeInputs >>
  /\ FilterFrame

\* synchronize_ports: the loop test (this_node.outputs.size() < 0 never
\* holds), and one iteration of the loop; appeared: the barrier's events
\* have put an input port into this_node
synchronize_ports_loop(appeared) ==
  /\ fPc = "synchronize_ports"
  /\ IF ~(nodeInputs < num_local_ins)
     THEN /\ fPc' = "idle"
          /\ fRet' = [op |-> "synchronize_ports", assert |-> "held"]
          /\ UNCHANGED << nodeInputs, kSync, barriers >>
     ELSE /\ barriers' = barriers + 1
          /\ nodeInputs' = IF appeared THEN nodeInputs + 1 ELSE nodeInputs
          /\ kSync' = kSync + 1
          /\ IF synchronize_bound(kSync + 1)
             THEN /\ fPc' = "idle"
                  /\ fRet' = [op |-> "synchronize_ports", assert |-> "held"]
             ELSE UNCHANGED << fPc, fRet >>
  /\ UNCHANGED << filterPort, hostFilterPorts, node_id, nFilterOps >>
  /\ FilterFrame

FilterNext ==
  \/ \E ok \in BOOLEAN, ndebug \in BOOLEAN :
       filter_create_local_port(ok, ndebug)
  \/ \E ndebug \in BOOLEAN : filter_remove_port(ndebug)
  \/ \E ndebug \in BOOLEAN : filter_rename_port(ndebug)
  \/ \E acquired \in BOOLEAN : synchronize_node_begin(acquired)
  \/ \E acquired \in BOOLEAN : synchronize_node_loop(acquired)
  \/ synchronize_ports_begin
  \/ \E appeared \in BOOLEAN : synchronize_ports_loop(appeared)

(***************************************************************************)
(* CoreMIDI output: midi_out_core.                                         *)
(***************************************************************************)
\* the most bytes one MIDIPacketList carries
MaxPacketBytes == 65535

\* the room send_message's buffer leaves for the list and packet headers
PacketListPad == 16

\* the messages given to midi_out_core::send_message: the first byte and
\* the number of bytes; byte i of a message is identified by its index
CoreSizes == {0, 1, 3, 4, MaxPacketBytes, MaxPacketBytes + 1, 130000,
              10 * MaxPacketBytes}

CoreMsgs == { [first |-> f, nBytes |-> n] : f \in {SysExStart, 144},
                                             n \in CoreSizes }

NoPacketList == [ts |-> 0, off |-> 0, len |-> 0]

\* midi_out_core::midi_out_core: the client is the context's or a new one
InitCore ==
  /\ coreContext \in BOOLEAN
  /\ coreClient = "live"
  /\ corePort = NULL
  /\ endpoint = NULL
  /\ destinationId = NULL
  /\ cPc = "idle"
  /\ cMsg = [first |-> 0, nBytes |-> 0]
  /\ timestamp = 0
  /\ remainingBytes = 0
  /\ packetList = NoPacketList
  /\ cRet = [op |-> "none", err |-> Success]
  /\ hostTime = 0
  /\ hostCalls = <<>>
  /\ cSends = 0

\* a midi_out_core that is constructed and never used
InitCoreUnused == InitCore /\ ~coreContext

\* what an operation of midi_out_core leaves alone
CoreFrame ==
  /\ UNCHANGED jackVars
  /\ UNCHANGED pwVars
  /\ UNCHANGED syncVars
  /\ UNCHANGED filterVars

\* midi_out_core::close_client: MIDIClientDispose unless the client is the
\* context's; the host sees a client that is live, disposed, or disposed
\* again
close_client ==
  IF ~coreContext
  THEN (IF coreClient = "live" THEN "disposed" ELSE "disposed_twice")
  ELSE coreClient

\* midi_out_core::~midi_out_core: close_port (coremidi_data's, which leaves
\* the client alone), MIDIEndpointDispose if there is an endpoint, then
\* close_client
core_destructor ==
  /\ cPc = "idle"
  /\ cPc' = "destroyed"
  /\ coreClient' = close_client
  /\ cRet' = [op |-> "destructor", err |-> Success]
  /\ hostCalls' = <<>>
  /\ UNCHANGED << coreContext, corePort, endpoint, destinationId, cMsg,
                  timestamp, remainingBytes, packetList, hostTime, cSends >>
  /\ CoreFrame

\* midi_out_core::open_port; found: locate_object finds the destination,
\* createOk: MIDIOutputPortCreate returns noErr
core_open_port(found, createOk) ==
  /\ cPc = "idle"
  /\ IF ~found
     THEN /\ cRet' = [op |-> "open_port", err |-> InvalidArgument]
          /\ UNCHANGED << coreClient, corePort, destinationId >>
     ELSE IF ~createOk
     THEN /\ coreClient' = close_client
          /\ cRet' = [op |-> "open_port", err |-> IoError]
          /\ UNCHANGED << corePort, destinationId >>
     ELSE /\ corePort' = 1
          /\ destinationId' = 1
          /\ cRet' = [op |-> "open_port", err |-> Success]
          /\ UNCHANGED coreClient
  /\ hostCalls' = <<>>
  /\ UNCHANGED << coreContext, endpoint, cPc, cMsg, timestamp,
                  remainingBytes, packetList, hostTime, cSends >>
  /\ CoreFrame

\* midi_out_core::open_virtual_port; createOk: MIDISourceCreate returns noErr
core_open_virtual_port(createOk) ==
  /\ cPc = "idle"
  /\ IF ~createOk
     THEN /\ cRet' = [op |-> "open_virtual_port", err |-> IoError]
          /\ UNCHANGED endpoint
     ELSE /\ endpoint' = 1
          /\ cRet' = [op |-> "open_virtual_port", err |-> Success]
  /\ hostCalls' = <<>>
  /\ UNCHANGED << coreContext, coreClient, corePort, destinationId, cPc,
                  cMsg, timestamp, remainingBytes, packetList, hostTime,
                  cSends >>
  /\ CoreFrame

\* midi_out_core::send_message up to the loop: the two validations, the
\* timestamp, remainingBytes
core_send_message_begin(m) ==
  /\ cPc = "idle"
  /\ cSends < MaxSends
  /\ cSends' = cSends + 1
  /\ cMsg' = m
  /\ hostCalls' = <<>>
  /\ IF m.nBytes = 0
     THEN /\ cRet' = [op |-> "send_message", err |-> InvalidArgument]
          /\ UNCHANGED << cPc, timestamp, remainingBytes >>
     ELSE IF m.first # SysExStart /\ m.nBytes > 3
     THEN /\ cRet' = [op |-> "send_message", err |-> BadMessage]
          /\ UNCHANGED << cPc, timestamp, remainingBytes >>
     ELSE /\ timestamp' = hostTime
          /\ remainingBytes' = m.nBytes
          /\ cPc' = "loop"
          /\ cRet' = [op |-> "send_message", err |-> Pending]
  /\ UNCHANGED << coreContext, coreClient, corePort, endpoint,
                  destinationId, packetList, hostTime >>
  /\ CoreFrame

\* send_message's bufsize, and listSize = sizeof(buffer)
bufsize(nBytes) == IF nBytes > MaxPacketBytes THEN MaxPacketBytes ELSE nBytes

listSize(nBytes) == bufsize(nBytes) + PacketListPad

\* send_message's bytesForPacket
bytesForPacket(remaining) ==
  IF remaining > MaxPacketBytes THEN MaxPacketBytes ELSE remaining

dataStart_FromStart(nBytes, remaining) == 0

\* send_message's dataStartPtr, as an index into message
dataStart(nBytes, remaining) == nBytes - remaining

\* MIDIPacketListInit then MIDIPacketListAdd: the list with the one packet,
\* or NoPacketList (a null packet) when the packet does not fit the list;
\* the list and packet headers take no more than the pad
MIDIPacketListAdd(size, ts, nData, start) ==
  IF nData + PacketListPad <= size /\ nData <= MaxPacketBytes
  THEN [ts |-> ts, off |-> start, len |-> nData]
  ELSE NoPacketList

\* send_message: the loop test, and the packet list of one iteration
core_send_message_packet ==
  /\ cPc = "loop"
  /\ IF remainingBytes = 0
     THEN /\ cRet' = [op |-> "send_message", err |-> Success]
          /\ cPc' = "idle"
          /\ UNCHANGED << remainingBytes, packetList >>
     ELSE LET n == bytesForPacket(remainingBytes)
              packet == MIDIPacketListAdd(listSize(cMsg.nBytes), timestamp,
                          n, dataStart(cMsg.nBytes, remainingBytes))
          IN  /\ remainingBytes' = remainingBytes - n
              /\ packetList' = packet
              /\ IF packet = NoPacketList
                 THEN /\ cRet' = [op |-> "send_message", err |-> MessageSize]
                      /\ cPc' = "idle"
                 ELSE /\ cPc' = "received"
                      /\ UNCHANGED cRet
  /\ UNCHANGED << coreContext, coreClient, corePort, endpoint,
                  destinationId, cMsg, timestamp, hostTime, hostCalls,
                  cSends >>
  /\ CoreFrame

\* a call of the host with the packet list
HostCall(path, ok) ==
  [path |-> path, ts |-> packetList.ts, off |-> packetList.off,
   len |-> packetList.len, ok |-> ok]

core_send_message_received_IgnoresFailure(ok) ==
  /\ cPc = "received"
  /\ IF endpoint # NULL
     THEN hostCalls' = Append(hostCalls, HostCall("received", ok))
     ELSE UNCHANGED hostCalls
  /\ cPc' = "send"
  /\ UNCHANGED << coreContext, coreClient, corePort, endpoint,
                  destinationId, cMsg, timestamp, remainingBytes,
                  packetList, hostTime, cSends, cRet >>
  /\ CoreFrame

\* send_message: MIDIReceived on the virtual endpoint, if there is one;
\* ok: it returns noErr
core_send_message_received(ok) ==
  /\ cPc = "received"
  /\ IF endpoint # NULL
     THEN /\ hostCalls' = Append(hostCalls, HostCall("received", ok))
          /\ IF ok
             THEN cPc' = "send" /\ UNCHANGED cRet
             ELSE /\ cRet' = [op |-> "send_message", err |-> IoError]
                  /\ cPc' = "idle"
     ELSE /\ cPc' = "send"
          /\ UNCHANGED << hostCalls, cRet >>
  /\ UNCHANGED << coreContext, coreClient, corePort, endpoint,
                  destinationId, cMsg, timestamp, remainingBytes,
                  packetList, hostTime, cSends >>
  /\ CoreFrame

\* send_message: MIDISend to the destination, if one is bound; ok: it
\* returns noErr
core_send_message_send(ok) ==
  /\ cPc = "send"
  /\ IF destinationId # NULL
     THEN /\ hostCalls' = Append(hostCalls, HostCall("send", ok))
          /\ IF ok
             THEN cPc' = "loop" /\ UNCHANGED cRet
             ELSE /\ cRet' = [op |-> "send_message", err |-> IoError]
                  /\ cPc' = "idle"
     ELSE /\ cPc' = "loop"
          /\ UNCHANGED << hostCalls, cRet >>
  /\ UNCHANGED << coreContext, coreClient, corePort, endpoint,
                  destinationId, cMsg, timestamp, remainingBytes,
                  packetList, hostTime, cSends >>
  /\ CoreFrame

\* the host clock LIBREMIDI_AUDIO_GET_CURRENT_HOST_TIME reads moves on
host_time_advances ==
  /\ hostTime < MaxHostTime
  /\ hostTime' = hostTime + 1
  /\ UNCHANGED << coreContext, coreClient, corePort, endpoint,
                  destinationId, cPc, cMsg, timestamp, remainingBytes,
                  packetList, cRet, hostCalls, cSends >>
  /\ CoreFrame

CoreNext ==
  \/ \E found \in BOOLEAN, createOk \in BOOLEAN :
       core_open_port(found, createOk)
  \/ \E createOk \in BOOLEAN : core_open_virtual_port(createOk)
  \/ \E m \in CoreMsgs : core_send_message_begin(m)
  \/ core_send_message_packet
  \/ \E ok \in BOOLEAN : core_send_message_received(ok)
  \/ \E ok \in BOOLEAN : core_send_message_send(ok)
  \/ host_time_advances
  \/ core_destructor

(***************************************************************************)
(* Specifications.                                                         *)
(***************************************************************************)
\* the JACK output, with no PipeWire context
Init ==
  /\ InitJack
  /\ InitPw
  /\ InitCoreUnused
  /\ InitSyncUnused
  /\ InitFilter

Next == JackNext

Spec == Init /\ [][Next]_vars

\* the host invokes the callback cycle after cycle, and a user thread inside
\* an operation keeps running
FairSpec ==
  /\ Spec
  /\ WF_vars(RealtimeStep)
  /\ WF_vars(UserStep)

\* the queued JACK output: its port is opened, messages are sent, the
\* callback drains the queue
InitQueued == Init /\ ~direct

QueuedUserCall ==
  \/ \E n \in PortNameLens, ok \in BOOLEAN : open_virtual_port(n, ok)
  \/ \E m \in Msgs : jack_queue_write_begin(m)

\* the steps inside jack_queue::write
WriterStep ==
  \/ jack_queue_write_size
  \/ jack_queue_write_data
  \/ jack_ringbuffer_write_wrap

QueuedNext == QueuedUserCall \/ WriterStep \/ RealtimeStep

SpecQueued == InitQueued /\ [][QueuedNext]_vars

\* the host invokes the callback cycle after cycle, and a user thread inside
\* an operation keeps running
FairQueued ==
  /\ SpecQueued
  /\ WF_vars(RealtimeStep)
  /\ WF_vars(WriterStep)

\* the JACK output on an external context
InitContext == Init /\ context

ContextRealtimeStep ==
  \/ callback_context
  \/ process
  \/ \E room \in BOOLEAN : jack_queue_read(room)
  \/ check_client_released

ContextNext == UserCall \/ UserStep \/ ContextRealtimeStep

SpecContext == InitContext /\ [][ContextNext]_vars

\* the context's owner invokes the callback cycle after cycle, and a user
\* thread inside an operation keeps running
FairContext ==
  /\ SpecContext
  /\ WF_vars(ContextRealtimeStep)
  /\ WF_vars(UserStep)

\* the direct JACK output over its whole life
InitLife == Init /\ direct

SpecLife == InitLife /\ [][LifeNext]_vars

\* the callback runs as long as the host invokes it, and a user thread
\* inside an operation keeps running
FairLife ==
  /\ SpecLife
  /\ WF_vars(LifeRealtimeStep)
  /\ WF_vars(LifeUserStep)

\* the queued JACK output on an external context, with two sending threads
InitTwoSenders == Init /\ ~direct /\ context /\ client # NULL

SpecTwoSenders == InitTwoSenders /\ [][TwoSendersNext]_vars

\* the CoreMIDI output, with a JACK output that was never connected and no
\* PipeWire context
InitCoreSpec ==
  /\ InitCore
  /\ InitJack
  /\ direct
  /\ ~context
  /\ client = NULL
  /\ InitPw
  /\ InitSyncUnused
  /\ InitFilter

SpecCore == InitCoreSpec /\ [][CoreNext]_vars

\* the PipeWire context's barrier, with the registry events dispatched
\* while its loop runs
InitSyncSpec ==
  /\ InitSync
  /\ InitPw
  /\ InitFilter
  /\ InitJack
  /\ direct
  /\ ~context
  /\ client = NULL
  /\ InitCoreUnused

SpecSync == InitSyncSpec /\ [][SyncNext]_vars

\* the PipeWire filter
InitFilterSpec ==
  /\ InitFilter
  /\ InitPw
  /\ InitSyncUnused
  /\ InitJack
  /\ direct
  /\ ~context
  /\ client = NULL
  /\ InitCoreUnused

SpecFilter == InitFilterSpec /\ [][FilterNext]_vars

\* the PipeWire context, with a JACK output that was never connected
InitGraph ==
  /\ InitPw
  /\ InitJack
  /\ direct
  /\ ~context
  /\ client = NULL
  /\ InitCoreUnused
  /\ InitSyncUnused
  /\ InitFilter

NextGraph == PwNext

SpecGraph == InitGraph /\ [][NextGraph]_vars

(***************************************************************************)
(* Properties.                                                             *)
(***************************************************************************)
\* a step of the user thread (or no step at all): every step of the realtime
\* thread moves cbPc or takes a frame off the queue
UserStepTaken == cbPc' = cbPc /\ consumed' = consumed

\* C1. Handshake safety: while the callback is inside a cycle that loaded a
\* non-null port from the slot (from its load up to check_client_released),
\* and whenever process() holds a port it read from the slot, that port is
\* still registered with the host: jack_port_unregister has not happened.
HandshakeSafety ==
  /\ (cbPc # "idle" /\ cbPort # NULL) => hostPort[cbPort] = "registered"
  /\ procPort # NULL => hostPort[procPort] = "registered"

\* C1 witness: close_port has stored null and waits for the acknowledgement
\* while the callback is draining the queue for the port it loaded before
WitnessHandshakeSafety ==
  /\ uPc = "close_wait"
  /\ cbPc = "read"
  /\ cbPort # NULL
  /\ cbPort = uPortPtr
  /\ port = NULL

\* C2. Close-under-callback liveness: with a self-created client and a queued
\* output, a close_port that has started its handshake eventually returns.
CloseUnderCallbackReturns ==
  (uPc = "close_wait" /\ ~context /\ ~direct) ~> (uPc = "idle")

\* C3. Send validation on every backend: a send_message that has returned
\* returned InvalidArgument exactly for the empty message and BadMessage
\* exactly for a message of more than 3 bytes that is not a SysEx.
SendValidationEveryBackend ==
  (uRet.op = "send_message" /\ uRet.err # Pending) =>
    /\ (uRet.err = InvalidArgument) <=> (Len(uMsg) = 0)
    /\ (uRet.err = BadMessage) <=> (Len(uMsg) > 3 /\ uMsg[1] # SysExStart)

\* C4. Ring round-trip: a write whose frame fits beside what the queue holds
\* does not wait, and at the end of a drain during which the user thread did
\* nothing and every reservation succeeded, the cycle's buffer holds exactly
\* the payloads written and not taken off before, in write order, each at
\* frame 0, and the queue is empty.
RingRoundTrip ==
  /\ (uPc = "write_wait"
        /\ jack_ringbuffer_read_space(rb) + Len(uMsg) + size_sz <= rbSpace)
       => jack_ringbuffer_write_space(rb) >= Len(uMsg) + size_sz
  /\ (~direct /\ cbPc = "check" /\ cycleQuiet) =>
       /\ outBuf = [i \in 1..(Len(written) - cycleBase) |->
                      [time |-> 0, data |-> written[cycleBase + i]]]
       /\ rb.rp = rb.wp
       /\ consumed = Len(written)

\* C4 witness: one drain has delivered two messages written before it
WitnessRingRoundTrip ==
  /\ ~direct
  /\ cbPc = "check"
  /\ cycleQuiet
  /\ cycleBase = 0
  /\ Len(outBuf) = 2

\* C5. Ring too-large rejection: a write of a message whose frame exceeds the
\* usable capacity returns NoBufferSpace in the same step and leaves the
\* ring (contents, read and write positions) as it was.
RingTooLargeRejected ==
  [][(uPc = "idle" /\ ~direct /\ nSends' = nSends + 1
        /\ Len(uMsg') + size_sz > rbSpace) =>
       /\ uRet' = [op |-> "send_message", err |-> NoBufferSpace]
       /\ uPc' = "idle"
       /\ rb' = rb
       /\ written' = written]_vars

\* C5 witness: a write was rejected while the queue held a frame
WitnessRingTooLargeRejected ==
  /\ ~direct
  /\ uRet = [op |-> "send_message", err |-> NoBufferSpace]
  /\ Len(uMsg) + size_sz > rbSpace
  /\ jack_ringbuffer_read_space(rb) > 0

\* the states of scenario S2: a ring of size 64 from which nothing has been
\* taken, a first write of 40 bytes that succeeded, and a second write of 40
\* bytes that has been called
S2SecondWrite ==
  /\ ~direct
  /\ rb.size = 64
  /\ consumed = 0
  /\ written = << Msg40 >>
  /\ uMsg = Msg40
  /\ uRet.op = "send_message"
  /\ ~(uPc = "idle" /\ uRet.err = Success)

\* C6 as stated. Overflow scenario S2: the second write of 40 bytes has
\* returned NoBufferSpace.
S2SecondWriteReturnsNoBufferSpace ==
  S2SecondWrite =>
    (uPc = "idle" /\ uRet = [op |-> "send_message", err |-> NoBufferSpace])

\* C6 as amended. Overflow scenario S2: the second write of 40 bytes does
\* not return; it waits in the spin-yield loop, having written nothing, for
\* as long as nothing is taken off the queue.
S2SecondWriteWaits ==
  S2SecondWrite =>
    /\ uPc = "write_wait"
    /\ uRet.err = Pending
    /\ rb.wp = Len(Msg40) + size_sz
    /\ jack_ringbuffer_write_space(rb) < Len(Msg40) + size_sz

\* C6 witness: the second write of scenario S2 is under way
WitnessS2SecondWrite == S2SecondWrite /\ nSends = 2

\* C7. Idempotent close: close_port on a null slot returns success in the
\* same step, starts no handshake and changes neither the slot, the host's
\* ports, the semaphores nor the queue; no port is ever unregistered twice.
IdempotentClose ==
  /\ [][(uPc = "idle" /\ port = NULL /\ uRet'.op = "close_port"
           /\ UserStepTaken) =>
          /\ uRet'.err = Success
          /\ uPc' = "idle"
          /\ UNCHANGED << port, hostPort, clientReady, releaseAck, rb,
                          uPortPtr, outBuf >>]_vars
  /\ [](\A p \in DOMAIN hostPort : hostPort[p] # "unregistered_twice")

\* C7 witness: close_port has returned success on an output on which no port
\* was ever registered, so that its slot was null when it was called
WitnessIdempotentClose ==
  /\ uRet = [op |-> "close_port", err |-> Success]
  /\ port = NULL
  /\ uPc = "idle"
  /\ \A p \in DOMAIN hostPort : hostPort[p] = "free"

\* C8. Send after close: a send_message that returns on an output whose
\* port was closed by a close_port that returned (the slot is null and a
\* port has been unregistered) returns NotConnected.
SendAfterCloseNotConnected ==
  (/\ uRet.op = "send_message"
   /\ uRet.err # Pending
   /\ port = NULL
   /\ \E p \in DOMAIN hostPort : hostPort[p] = "unregistered")
    => uRet.err = NotConnected

\* the places of the graph that hold a record of port id: map, node,
\* direction vector and index
Places(g, id) ==
  { pl \in UNION { UNION { ({<< m, k, "inputs" >>} \X (1..Len(g[m][k].inputs)))
                             \cup
                           ({<< m, k, "outputs" >>} \X (1..Len(g[m][k].outputs)))
                           : k \in DOMAIN g[m] } : m \in MapNames } :
      LET m == pl[1][1]
          k == pl[1][2]
          vec == IF pl[1][3] = "inputs" THEN g[m][k].inputs
                 ELSE g[m][k].outputs
      IN  vec[pl[2]].id = id }

\* C9. Graph uniqueness: every port id is held by at most one place of the
\* four-map graph (one map, one node, one direction vector, once).
GraphUniqueness ==
  \A id \in Ids : Cardinality(Places(current_graph, id)) <= 1

\* the records of a vector that are not of port id
NotOf(vec, id) == SelectSeq(vec, LAMBDA p : p.id # id)

\* C10. Graph removal: the step that handles global_remove(id) leaves no
\* record of id in any vector of any node of any map, no listener and no
\* bound proxy for id, and every vector's records of other ids as they were;
\* and the graph only ever holds ports whose proxy is bound, so that no info
\* event puts the port back unless the id is announced again.
GraphRemoval ==
  /\ [][(nEvents' = nEvents + 1 /\ pwEvent'.type = "global_remove") =>
          LET id == pwEvent'.id
          IN  /\ Places(current_graph', id) = {}
              /\ \A i \in 1..Len(port_listener') : port_listener'[i].id # id
              /\ \A l \in proxies' : l.id # id
              /\ \A m \in MapNames :
                   /\ DOMAIN current_graph'[m] = DOMAIN current_graph[m]
                   /\ \A k \in DOMAIN current_graph[m] :
                        /\ NotOf(current_graph'[m][k].inputs, id)
                             = NotOf(current_graph[m][k].inputs, id)
                        /\ NotOf(current_graph'[m][k].outputs, id)
                             = NotOf(current_graph[m][k].outputs, id)]_vars
  /\ [](\A id \in Ids :
          Places(current_graph, id) # {} => \E l \in proxies : l.id = id)

\* C10 witness: global_remove has just been handled for a port that was in
\* the graph (its node is left with an empty vector) while another port is
\* still in the graph
WitnessGraphRemoval ==
  /\ pwEvent.type = "global_remove"
  /\ Places(current_graph, pwEvent.id) = {}
  /\ \E m \in MapNames : \E k \in DOMAIN current_graph[m] :
       current_graph[m][k].outputs = << >> /\ current_graph[m][k].inputs = << >>
  /\ \E id \in Ids : Places(current_graph, id) # {}

\* C14. Constructor failure: on an output whose constructor could not get a
\* client, every open_port, open_virtual_port and send_message that returns
\* returns NotConnected (and the object has no port).
ConstructorFailureNotConnected ==
  (/\ client = NULL
   /\ uRet.op \in {"open_port", "open_virtual_port", "send_message"}
   /\ uRet.err # Pending)
    => (uRet.err = NotConnected /\ port = NULL)

\* the name check of section 4.F: client_name.len + port_name.len + 2 is not
\* below the host's limit, an empty name counting as one character
NameTooLong(nameLen) ==
  ClientNameLen + (IF nameLen = 0 THEN 1 ELSE nameLen) + 2 >= PortNameSize

ContextCallbackChecksEveryCycle ==
  /\ [][(context /\ cbPc = "idle" /\ cbPc' # "idle" /\ port = NULL)
          => (cbPc' = "check" /\ UNCHANGED << procPort, outBuf >>)]_vars
  /\ ((uPc = "close_wait" /\ context) ~> (uPc = "idle"))

\* C19 witness: with an external context, close_port waits in its handshake
\* and the callback, having loaded the null slot, is about to call
\* check_client_released
WitnessContextCallbackChecks ==
  /\ context
  /\ uPc = "close_wait"
  /\ cbPc = "check"
  /\ cbPort = NULL
  /\ port = NULL

FrameOf(m) == EncodeSize(Len(m)) \o m

\* the frames of seq[i], seq[i+1], ... one after the other
RECURSIVE FramesFrom(_, _)
FramesFrom(seq, i) ==
  IF i > Len(seq) THEN << >> ELSE FrameOf(seq[i]) \o FramesFrom(seq, i + 1)

\* the bytes the consumer can read, from the read index to the write index
Readable(r) == jack_ringbuffer_peek(r, jack_ringbuffer_read_space(r))

\* the bytes the write in progress has published so far
InFlight ==
  CASE uPc = "write_size_wrap" -> SubSeq(EncodeSize(Len(uMsg)), 1, uDone)
    [] uPc = "write_data" -> EncodeSize(Len(uMsg))
    [] uPc = "write_data_wrap" ->
         EncodeSize(Len(uMsg)) \o SubSeq(uMsg, 1, uDone)
    [] OTHER -> << >>

\* the messages whose whole frame has been published, in write order: the
\* writes that returned, and an empty message whose prefix is written
Published ==
  IF uPc = "write_data" /\ uMsg = << >> THEN Append(written, uMsg)
  ELSE written

\* C18. No partial frame: whenever the consumer can peek a 4-byte
\* length, at least that many further bytes are readable.
NoPartialFrame ==
  (~direct /\ jack_ringbuffer_read_space(rb) >= size_sz) =>
    jack_ringbuffer_read_space(rb)
      >= size_sz + DecodeSize(jack_ringbuffer_peek(rb, size_sz))

\* What jack_queue keeps instead. The readable bytes are the complete frames of the
\* messages written and not yet taken, in write order, followed by at most
\* one incomplete frame: what the write in progress has published so far
\* (part of its length prefix, or the prefix and part of its payload); and
\* the consumer has taken no more frames than were published.
AtMostOnePartialFrame ==
  ~direct =>
    /\ consumed <= Len(Published)
    /\ Readable(rb) =
         FramesFrom(written, consumed + 1)
           \o (IF consumed > Len(written) THEN << >> ELSE InFlight)

\* the consumer is in its loop and can peek a length whose
\* payload is not readable yet, behind a complete frame
WitnessPartialFrame ==
  /\ ~direct
  /\ cbPc = "read"
  /\ uPc = "write_data"
  /\ Len(uMsg) > 0
  /\ consumed < Len(written)

\* C20. Drain delivery under interleaving: every frame the consumer takes is
\* the frame of the next published message: the read index moves by exactly
\* 4 + len, and the payload is either appended to the cycle's buffer,
\* byte-identical and at frame 0, or dropped; the drain loop ends only when
\* no complete frame is left, and leaves the queue as it is.
DrainDelivery ==
  /\ [][(consumed' = consumed + 1) =>
          /\ consumed < Len(Published)
          /\ LET w == Published[consumed + 1]
             IN  /\ rb'.rp = (rb.rp + size_sz + Len(w)) % rb.size
                 /\ rb'.wp = rb.wp
                 /\ rb'.buf = rb.buf
                 /\ \/ outBuf' = Append(outBuf, [time |-> 0, data |-> w])
                    \/ outBuf' = outBuf]_vars
  /\ [][(cbPc = "read" /\ cbPc' = "check") =>
          /\ rb' = rb
          /\ outBuf' = outBuf
          /\ consumed >= Len(Published)]_vars

\* C20 witness: in one drain the first frame was dropped (its reservation
\* failed) and the second was delivered
WitnessDrainDelivery ==
  /\ ~direct
  /\ cbPc = "read"
  /\ cycleBase = 0
  /\ consumed = 2
  /\ Len(written) = 2
  /\ outBuf = << [time |-> 0, data |-> written[2]] >>

\* the elements of a sequence
Range(seq) == { seq[i] : i \in 1..Len(seq) }

\* C17. Concurrent senders: every event the consumer puts into the cycle's
\* buffer carries, intact, a message that one of the send_message calls was
\* given.
ConcurrentSendersIntact ==
  \A i \in 1..Len(outBuf) :
    outBuf[i].data \in Range(written) \cup {uMsg, u2Msg}

\* a message that passes send_message's two validations
CoreValid(m) == m.nBytes # 0 /\ ~(m.first # SysExStart /\ m.nBytes > 3)

\* the calls of the latest send_message on one path
CallsOn(path) == SelectSeq(hostCalls, LAMBDA c : c.path = path)

\* the paths the object has
CorePaths ==
  (IF endpoint # NULL THEN {"received"} ELSE {})
    \cup (IF destinationId # NULL THEN {"send"} ELSE {})

\* ceil(n / MaxPacketBytes)
NumFragments(n) == (n + MaxPacketBytes - 1) \div MaxPacketBytes

\* the fragments are slices of the message that follow one another from its
\* first byte to its last, so that their concatenation is the message
Concatenated(f, n) ==
  /\ Len(f) > 0
  /\ f[1].off = 0
  /\ \A i \in 1..(Len(f) - 1) : f[i + 1].off = f[i].off + f[i].len
  /\ f[Len(f)].off + f[Len(f)].len = n
  /\ \A i \in 1..Len(f) : f[i].len > 0

\* C11. Fragmentation atomicity: when send_message has returned for a valid
\* message and no host call failed, it returned success and each path the
\* object has was handed ceil(|b| / 65535) packet lists of at most 65535
\* bytes, all with the one timestamp, whose payloads concatenated are b; the
\* timestamp is read once, before the loop, and never again during the call.
FragmentationAtomicity ==
  /\ [](  (/\ cPc = "idle"
           /\ cRet.op = "send_message"
           /\ CoreValid(cMsg)
           /\ \A i \in 1..Len(hostCalls) : hostCalls[i].ok)
       => /\ cRet.err = Success
          /\ \A path \in CorePaths :
               LET f == CallsOn(path)
               IN  /\ Len(f) = NumFragments(cMsg.nBytes)
                   /\ \A i \in 1..Len(f) :
                        /\ f[i].len <= MaxPacketBytes
                        /\ f[i].ts = timestamp
                   /\ Concatenated(f, cMsg.nBytes))
  /\ [][cPc # "idle" => timestamp' = timestamp]_vars
  /\ [][(cPc = "idle" /\ cPc' = "loop") => timestamp' = hostTime]_vars

\* a 130000-byte SysEx went out on a path as 65535 then 64465 bytes while
\* the host clock moved on during the call
WitnessFragmentationAtomicity ==
  /\ cPc = "idle"
  /\ cRet = [op |-> "send_message", err |-> Success]
  /\ cMsg.nBytes = 130000
  /\ hostTime > timestamp
  /\ \E path \in CorePaths :
       LET f == CallsOn(path)
       IN  /\ Len(f) = 2
           /\ f[1].len = 65535
           /\ f[2].len = 64465

RECURSIVE ExpectedCalls(_, _)
\* the host calls of a send_message of n bytes in order, from offset off on:
\* for each fragment, the virtual endpoint's, then the destination's
ExpectedCalls(off, n) ==
  IF off >= n THEN << >>
  ELSE LET len == Min(MaxPacketBytes, n - off)
       IN  (IF endpoint # NULL
            THEN << [path |-> "received", off |-> off, len |-> len] >>
            ELSE << >>)
           \o (IF destinationId # NULL
               THEN << [path |-> "send", off |-> off, len |-> len] >>
               ELSE << >>)
           \o ExpectedCalls(off + len, n)

\* C12. Send paths: during and after a send_message of a valid message, the
\* host calls made are, fragment by fragment, the virtual endpoint's if
\* there is one and then the destination's if one is bound; only the last
\* call made can have failed; and once send_message has returned, it
\* returned IoError if that call failed, and made every call if none did.
SendPaths ==
  (cRet.op = "send_message" /\ CoreValid(cMsg)) =>
    LET exp == ExpectedCalls(0, cMsg.nBytes)
        n == Len(hostCalls)
    IN  /\ n <= Len(exp)
        /\ \A i \in 1..n :
             /\ hostCalls[i].path = exp[i].path
             /\ hostCalls[i].off = exp[i].off
             /\ hostCalls[i].len = exp[i].len
        /\ \A i \in 1..(n - 1) : hostCalls[i].ok
        /\ (n > 0 /\ ~hostCalls[n].ok) =>
             (cPc = "idle" /\ cRet.err = IoError)
        /\ (cPc = "idle" /\ (n = 0 \/ hostCalls[n].ok)) =>
             (n = Len(exp) /\ cRet.err = Success)

\* with both paths, the second fragment's MIDISend failed after three calls
\* that succeeded, and send_message returned IoError with fragments left
WitnessSendPaths ==
  /\ cPc = "idle"
  /\ cRet = [op |-> "send_message", err |-> IoError]
  /\ endpoint # NULL
  /\ destinationId # NULL
  /\ Len(hostCalls) = 4
  /\ hostCalls[3].path = "received"
  /\ hostCalls[4].path = "send"
  /\ ~hostCalls[4].ok
  /\ remainingBytes > 0

\* the write of the user thread is in the spin-yield loop and its frame
\* exceeds the free space
WriteWaits ==
  /\ uPc = "write_wait"
  /\ jack_ringbuffer_write_space(rb) < Len(uMsg) + size_sz

\* C21. Spin-yield write: a write that passed the capacity test and whose
\* frame exceeds the free space has returned no error; while it waits it
\* writes nothing and stays in its loop, and the free space grows only by
\* the consumer taking a frame; and with a port open and the callback
\* invoked cycle after cycle, the write completes with success.
SpinYieldWrite ==
  /\ [](WriteWaits =>
          (~TooLarge(Len(uMsg))
             /\ uRet = [op |-> "send_message", err |-> Pending]))
  /\ [][WriteWaits =>
          /\ uPc' = "write_wait"
          /\ rb'.wp = rb.wp
          /\ rb'.buf = rb.buf
          /\ written' = written
          /\ uRet' = uRet
          /\ (rb' # rb => (cbPc = "read" /\ consumed' = consumed + 1))]_vars
  /\ (WriteWaits /\ port # NULL)
       ~> (uPc = "idle" /\ uRet = [op |-> "send_message", err |-> Success])

\* a second 40-byte write, which had to wait for the first frame to be
\* taken off the 64-byte ring, has returned success
WitnessSpinYieldWrite ==
  /\ rb.size = 64
  /\ written = << Msg40, Msg40 >>
  /\ uPc = "idle"
  /\ uRet = [op |-> "send_message", err |-> Success]

\* the vector of a node of a map, empty when the map has no such node
VectorOf(g, m, k, v) ==
  IF k \in DOMAIN g[m]
  THEN (IF v = "inputs" THEN g[m][k].inputs ELSE g[m][k].outputs)
  ELSE << >>

\* C22. Port-info classification: the step that handles a port-info event
\* leaves the graph unchanged when the port has no node.id or its format
\* contains neither "audio" nor "midi"; otherwise it appends the port to one
\* vector and leaves every other vector, node and map as they were: the map
\* is chosen by the physical flag and the format, the node is the one keyed
\* by node.id, the vector is outputs for direction "out" and inputs for "in".
PortInfoClassification ==
  [][(nEvents' = nEvents + 1 /\ pwEvent'.type = "info") =>
       LET id == pwEvent'.id
           props == globals[id].props
           audio == Contains(props.format_dsp, "audio")
           midi == Contains(props.format_dsp, "midi")
           physical == props.port_physical = "true"
       IN  IF props.node_id = << >> \/ (~audio /\ ~midi)
           THEN current_graph' = current_graph
           ELSE LET m == IF physical /\ audio THEN "physical_audio"
                         ELSE IF physical /\ midi THEN "physical_midi"
                         ELSE IF audio THEN "software_audio"
                         ELSE "software_midi"
                    nid == stoul(props.node_id)
                    v == IF props.port_direction = "out" THEN "outputs"
                         ELSE "inputs"
                    old == VectorOf(current_graph, m, nid, v)
                    new == VectorOf(current_graph', m, nid, v)
                IN  /\ Len(new) = Len(old) + 1
                    /\ SubSeq(new, 1, Len(old)) = old
                    /\ new[Len(new)].id = id
                    /\ \A m2 \in MapNames :
                         /\ DOMAIN current_graph'[m2]
                              = DOMAIN current_graph[m2]
                                  \cup (IF m2 = m THEN {nid} ELSE {})
                         /\ \A k \in DOMAIN current_graph'[m2] :
                              \A v2 \in {"inputs", "outputs"} :
                                << m2, k, v2 >> # << m, nid, v >> =>
                                  VectorOf(current_graph', m2, k, v2)
                                    = VectorOf(current_graph, m2, k, v2)]_vars

\* the latest event was a port-info event, and the graph holds a physical
\* midi output of node 7 and a software audio output of node 42
WitnessPortInfoClassification ==
  /\ pwEvent.type = "info"
  /\ Len(VectorOf(current_graph, "physical_midi", 7, "outputs")) = 1
  /\ Len(VectorOf(current_graph, "software_audio", 42, "outputs")) = 1
  /\ VectorOf(current_graph, "physical_midi", 7, "inputs") = << >>

\* C23. Sync barrier: synchronize() returns only after the daemon's answer
\* to its own sync request was dispatched, and with every registry and port
\* event sent before that answer applied; done is set only by the dispatch
\* of a done event with id PW_ID_CORE and the sequence number the request
\* returned; and with no core connection synchronize() returns at once
\* without running the loop.
SyncBarrier ==
  /\ [][(syncPc # "idle" /\ syncPc' = "idle") =>
          (done = 1 /\ replied /\ nEvents >= replyAfter)]_vars
  /\ [][(done = 0 /\ done' = 1) =>
          /\ syncPc = "run"
          /\ inbox # << >>
          /\ Head(inbox).id = PW_ID_CORE
          /\ Head(inbox).seq = nextSeq
          /\ nEvents >= Head(inbox).after]_vars
  /\ [][~core => (syncPc' = "idle" /\ loopRuns' = loopRuns)]_vars

\* the first synchronize() has returned after its loop was entered again
\* and after a registry event sent before the answer was applied
WitnessSyncBarrier ==
  /\ core
  /\ nSyncs = 1
  /\ syncPc = "idle"
  /\ done = 1
  /\ loopRuns >= 2
  /\ replyAfter >= 1
  /\ nEvents >= 1

\* C24. Bounded waiting: synchronize_node and synchronize_ports never
\* perform more than 100 barriers in one call.
BoundedWaiting == barriers <= MaxSyncIterations

\* C27. Filter port lifecycle: a rename_port on a filter that holds its
\* local port leaves the handle as it was.
FilterPortLifecycle ==
  [][(/\ filterPort # NULL
      /\ nFilterOps' = nFilterOps + 1
      /\ fRet'.op = "rename_port") => filterPort' = filterPort]_vars

\* C25. No null port inside process: the port process() reads from the slot
\* for jack_port_get_buffer is non-null and is the port the callback loaded
\* when it decided to call process.
NoNullPortInProcess ==
  [][(cbPc = "process" /\ cbPc' # "process") =>
       (procPort' # NULL /\ procPort' = cbPort)]_vars

\* C26. CoreMIDI client disposed at most once: what the host sees of the
\* client changes only in the destructor's step, from live to disposed.
ClientDisposedOnce ==
  [][coreClient' # coreClient =>
       (coreClient = "live" /\ cPc' = "destroyed")]_vars

=============================================================================
